---- MODULE Spec2Model ----
(***************************************************************************)
(* The chat server of doubleb: the socket.io event handlers and the        *)
(* auto-advance timer of server/index.js, the REST routes of               *)
(* server/routes/messages.js and routes/chats.js, and the notification     *)
(* coalescer of services/pushNotificationService.js.                       *)
(*                                                                         *)
(* The relational store is modelled by its tables (chats,                  *)
(* chat_participants, messages, message_reactions, push_subscriptions);    *)
(* socket.io by the set of connected sockets and the rooms each joined.    *)
(* One action is one handler run to completion.  The setTimeout callback   *)
(* of send-message is an action of its own, split where it awaits the      *)
(* second UPDATE.                                                          *)
(***************************************************************************)
EXTENDS Integers, Sequences, FiniteSets, TLC

\* ---------------------------------------------------------------- bounds
MaxMsgs == 1
MaxNotifs == 2
MaxSubscribing == 2
MaxReacting == 2
MaxShown == 11
MaxFetching == 1
MaxOps == 2
MaxQueued == 2

\* this.BATCH_DELAY, in ms
BATCH_DELAY == 500
\* MAX_QUEUE_SIZE of the service worker
MAX_QUEUE_SIZE == 10
\* the step of the clock, in ms
TickMs == BATCH_DELAY \div 2

Users == {"u1", "u2", "u3"}
Chats == {"c1", "c2"}
Conns == {"s1", "s2", "s3"}
MsgIds == 1..MaxMsgs
Statuses == {"sent", "delivered", "read"}
MsgTypes == {"text", "image"}
Contents == {"orig", "new"}
Emojis == {"x"}
Endpoints == {"e1", "e2"}
Outcomes == {"ok", "gone", "error"}
NoUser == "null"
\* useState(null) of currentChatId
NoChat == "null"
\* the connection of the client whose window and service worker are modelled
ClientConn == "s2"
\* no toggle made since the table was changed otherwise
NoToggle == <<>>
NoTimer == -1

\* socket.userId, set by the handshake middleware from the token
ConnUser(s) ==
  CASE s = "s1" -> "u1"
    [] s = "s2" -> "u2"
    [] OTHER    -> "u1"   \* s3: a second device of u1

\* chats.created_by
CreatedBy(c) == IF c = "c1" THEN "u1" ELSE "u2"

\* chat_participants as the store holds it when the server starts
InitParticipants(c) == IF c = "c1" THEN {"u1", "u2"} ELSE {"u2", "u3"}

VARIABLES
  connected,      \* sockets that passed the handshake and are open
  rooms,          \* socket -> chats whose room chat-<id> it joined
  chats,          \* rows of table chats
  participants,   \* chat -> users: rows of chat_participants
  messages,       \* id -> row of table messages
  nextId,         \* the SERIAL of messages.id
  reactions,      \* table message_reactions: <<message, user, emoji>> -> number of rows
  timers,         \* message id -> pending setTimeout closure of send-message
  emitted,        \* the socket events the last handler step sent, in order
  response,       \* the HTTP status the last handler step answered (0: none)
  subscriptions,  \* rows of push_subscriptions: <<user, endpoint>>
  isConfigured,   \* PushNotificationService.isConfigured
  notificationQueue, \* user -> [messages, timeout]: PushNotificationService.notificationQueue
  pushSeq,        \* how many messages were handed to sendMessageNotification
  pushed,         \* the sendToUser calls of the last step, in order
  sinceArrival,   \* user -> ms since a notification last arrived for them (history)
  burst,          \* user -> the run of arrivals less than BATCH_DELAY apart (history)
  subscribing,    \* request -> a storeSubscription call between its SELECT and its write
  reacting,       \* add-reaction requests between their message check and their INSERT
  reactionView,   \* the rows of the aggregate query the last handler step sent
  lastToggle,     \* the toggle a client made last and the table before it (history)
  currentChatId,  \* client of ClientConn: the chat open in the window (SocketContext state)
  isPageVisible,  \* client of ClientConn: !document.hidden
  notified,       \* the new-message events the client handled in this turn, each with
                  \* whether it raised the toast and the browser notification
  swQueue,        \* service worker: the stored notification queue, latest first
  swSeq,          \* service worker: how many notifications it was asked to show
  shown,          \* service worker: the notifications showNotification showed in this turn
  flushes,        \* the sendBatchedNotification calls that built their payload, in order (history)
  liveTimers,     \* user -> how many flush timers of theirs the event loop holds: set,
                  \* not yet fired and not cleared
  clientMessages, \* ChatWindow of ClientConn: the ids in its `messages` state, in order
  fetching,       \* the responses of GET /api/messages/:chatId on their way to ChatWindow
  sending,        \* the messages send-message inserted and has not broadcast yet
  swOps           \* service worker: the addToNotificationQueue and processQueuedNotifications
                  \* calls in progress, and the replays of the last return to foreground

sockVars == <<connected, rooms>>
storeVars == <<chats, participants, messages, nextId, reactions>>
pushVars == <<subscriptions, isConfigured, notificationQueue, pushSeq, pushed,
              sinceArrival, burst, subscribing>>
sideVars == <<reacting, reactionView, lastToggle>>
clientVars == <<currentChatId, isPageVisible, notified, swQueue, swSeq, shown>>
viewVars == <<clientMessages, fetching, sending>>
asyncVars == <<flushes, liveTimers, viewVars, swOps>>
vars == <<sockVars, storeVars, timers, emitted, response, pushVars, sideVars, clientVars,
         asyncVars>>

\* ------------------------------------------------------------- socket.io

\* io.to(room) as if a room were every connected socket
SocketsIn_everySocket(c) == connected

\* io.in(`chat-${chatId}`): the sockets joined to the room
SocketsIn(c) == {s \in connected : c \in rooms[s]}

\* one io.to(room).emit(event, payload) as delivered
Emit(ev, c, m, st, to) ==
  [event |-> ev, chat |-> c, msg |-> m, status |-> st, to |-> to]

\* io.to(room).emit that leaves one socket of the room out
ToRoom_oneLeftOut(ev, c, m, st) ==
  Emit(ev, c, m, st,
       IF SocketsIn(c) = {} THEN {} ELSE SocketsIn(c) \ {CHOOSE s \in SocketsIn(c) : TRUE})

\* io.to(`chat-${chatId}`).emit(...)
ToRoom(ev, c, m, st) == Emit(ev, c, m, st, SocketsIn(c))

\* socket.emit('error', ...): to the calling socket alone
ErrorTo(s, text) == Emit("error", "none", 0, text, {s})

\* ------------------------------------------------------------------ store

Rank(st) == CASE st = "sent" -> 0 [] st = "delivered" -> 1 [] OTHER -> 2

\* the participant check as if every user were in every chat
IsParticipant_anyone(c, u) == c \in Chats

\* SELECT 1 FROM chat_participants WHERE chat_id = $1 AND user_id = $2
IsParticipant(c, u) == c \in Chats /\ u \in participants[c]

\* SELECT ... FROM messages m JOIN chat_participants cp ... WHERE m.id = $1 AND cp.user_id = $2
MessageCheck(m, u) == m \in DOMAIN messages /\ IsParticipant(messages[m].chat_id, u)

\* UPDATE messages SET status = $1 WHERE id = $2 (no row: nothing changes)
UpdateStatus(msgs, m, st) ==
  IF m \in DOMAIN msgs THEN [msgs EXCEPT ![m].status = st] ELSE msgs

\* the ids of a set, ascending, as a sequence


RECURSIVE Ascending(_)
Ascending(S) ==
  IF S = {} THEN <<>>
  ELSE LET lo == CHOOSE x \in S : \A y \in S : x <= y
       IN <<lo>> \o Ascending(S \ {lo})

\* notificationQueue.get(userId) of a user nothing is pending for
EmptyQueue == [messages |-> <<>>, timeout |-> NoTimer]

\* ---------------------------------------------------------------- Init

\* the client and its service worker when the page has loaded: no chat open,
\* the page visible, nothing queued
ClientInit ==
  /\ currentChatId = NoChat
  /\ isPageVisible = TRUE
  /\ notified = <<>>
  /\ swQueue = <<>>
  /\ swSeq = 0
  /\ shown = <<>>

AsyncInit ==
  /\ flushes = <<>>
  /\ liveTimers = [u \in Users |-> 0]
  /\ clientMessages = <<>>
  /\ fetching = <<>>
  /\ sending = {}
  /\ swOps = <<>>

Init ==
  /\ connected = {}
  /\ rooms = [s \in Conns |-> {}]
  /\ chats = Chats
  /\ participants = [c \in Chats |-> InitParticipants(c)]
  /\ messages = <<>>
  /\ nextId = 1
  /\ timers = <<>>
  /\ reactions = <<>>
  /\ emitted = <<>>
  /\ response = 0
  /\ subscriptions = {<<"u3", "e1">>}
  /\ isConfigured = TRUE
  /\ notificationQueue = [u \in Users |-> EmptyQueue]
  /\ pushSeq = 0
  /\ pushed = <<>>
  /\ sinceArrival = [u \in Users |-> BATCH_DELAY]
  /\ burst = [u \in Users |-> [n |-> 0, tight |-> TRUE, dispatches |-> 0]]
  /\ subscribing = <<>>
  /\ reacting = {}
  /\ reactionView = <<>>
  /\ lastToggle = NoToggle
  /\ ClientInit
  /\ AsyncInit

\* ---------------------------------------------------------- server turns

\* no handler is running: the last turn's packets and answer are on the wire
Idle == emitted = <<>> /\ response = 0 /\ pushed = <<>> /\ notified = <<>> /\ shown = <<>>

\* the running handler returns to the event loop, which flushes what it sent
EndTurn ==
  /\ ~Idle
  /\ emitted' = <<>>
  /\ response' = 0
  /\ pushed' = <<>>
  /\ reactionView' = <<>>
  /\ notified' = <<>>
  /\ shown' = <<>>
  /\ UNCHANGED <<reacting, lastToggle, sockVars, storeVars, timers, subscriptions, isConfigured,
                 notificationQueue, pushSeq, sinceArrival, burst, subscribing,
                 currentChatId, isPageVisible, swQueue, swSeq, asyncVars>>

\* --------------------------------------------------- connection handling

\* io.on('connection'): after the handshake the socket is open, in no chat room
\* socket.handshake.auth.token: absent, not verifiable, signed for a user whose
\* row is gone, or signed for the user of the connection
NoToken == "undefined"
Tokens == {NoToken, "forged", "jwtOfDeletedUser", "jwt"}

\* decoded.userId of jwt.verify; NoUser when it throws
DecodedUser(s, token) ==
  CASE token = "jwt" -> ConnUser(s)
    [] token = "jwtOfDeletedUser" -> "u0"
    [] OTHER -> NoUser

\* the middleware as if it did not look the user up
Authenticates_noUserLookup(s, token) ==
  token # NoToken /\ DecodedUser(s, token) # NoUser

\* io.use: next() without an error
Authenticates(s, token) ==
  /\ token # NoToken
  /\ DecodedUser(s, token) # NoUser
  /\ DecodedUser(s, token) \in Users

\* a connection attempt of socket s with the token: the io.use middleware, and
\* io.on('connection') when it lets the socket through
Handshake(s, token) ==
  /\ Idle
  /\ s \notin connected
  /\ response' = 0
  /\ IF Authenticates(s, token)
     THEN /\ connected' = connected \cup {s}
          /\ emitted' = <<>>
     ELSE /\ emitted' = <<Emit("connect_error", "none", 0,
                               IF token # NoToken /\ DecodedUser(s, token) # NoUser
                               THEN "User not found" ELSE "Authentication error", {s})>>
          /\ UNCHANGED connected
  /\ UNCHANGED <<rooms, storeVars, timers, pushVars, sideVars, clientVars, asyncVars>>

Connect(s) ==
  /\ Idle
  /\ s \notin connected
  /\ connected' = connected \cup {s}
  /\ emitted' = <<>>
  /\ response' = 0
  /\ UNCHANGED <<rooms, storeVars, timers, pushVars, sideVars, clientVars, asyncVars>>

\* socket.on('disconnect'): socket.io removes the socket from all its rooms
Disconnect(s) ==
  /\ Idle
  /\ s \in connected
  /\ connected' = connected \ {s}
  /\ rooms' = [rooms EXCEPT ![s] = {}]
  /\ emitted' = <<>>
  /\ response' = 0
  /\ UNCHANGED <<storeVars, timers, pushVars, sideVars, clientVars, asyncVars>>

\* socket.on('join-chats')
JoinChats(s) ==
  /\ Idle
  /\ s \in connected
  /\ rooms' = [rooms EXCEPT ![s] = @ \cup {c \in Chats : ConnUser(s) \in participants[c]}]
  /\ emitted' = <<>>
  /\ response' = 0
  /\ UNCHANGED <<connected, storeVars, timers, pushVars, sideVars, clientVars, asyncVars>>

\* the rows join-chat's UPDATE and SELECT match: messages of the chat not sent by the user
OthersMessages(c, u) ==
  {m \in DOMAIN messages : messages[m].chat_id = c /\ messages[m].sender_id # u}

\* socket.on('join-chat')
JoinChat(s, c) ==
  /\ Idle
  /\ s \in connected
  /\ response' = 0
  /\ IF IsParticipant(c, ConnUser(s))
     THEN /\ rooms' = [rooms EXCEPT ![s] = @ \cup {c}]
          /\ messages' = [m \in DOMAIN messages |->
                            IF m \in OthersMessages(c, ConnUser(s))
                            THEN [messages[m] EXCEPT !.status = "read"]
                            ELSE messages[m]]
          /\ LET ids == Ascending(OthersMessages(c, ConnUser(s)))
                 to  == SocketsIn(c) \cup {s}
             IN emitted' = [i \in 1..Len(ids) |->
                              Emit("message-status-updated", c, ids[i], "read", to)]
     ELSE /\ emitted' = <<>>
          /\ UNCHANGED <<rooms, messages>>
  /\ UNCHANGED <<connected, chats, participants, nextId, timers, reactions, pushVars, sideVars,
                 clientVars, asyncVars>>

\* ------------------------------------------------------------ send-message

\* INSERT INTO messages ... VALUES (..., 'sent'); the column default is 'sent' too
NewRow(c, u, t) ==
  [chat_id |-> c, sender_id |-> u, status |-> "sent", message_type |-> t,
   content |-> "orig", edited |-> FALSE]

\* the connections of other users joined to the room of chat c
OthersIn(c, u) == {x \in SocketsIn(c) : ConnUser(x) # u}

\* socket.on('send-message'), up to and including setTimeout; beside the chatId
\* and userId the callback closes over, a timer keeps as history whether another
\* user's connection was in the room when the message was sent
SendMessage(s, c, t) ==
  /\ Idle
  /\ s \in connected
  /\ response' = 0
  /\ IF ~IsParticipant(c, ConnUser(s))
     THEN /\ emitted' = <<ErrorTo(s, "Access denied")>>
          /\ UNCHANGED <<messages, nextId, timers>>
     ELSE /\ nextId <= MaxMsgs
          /\ messages' = (nextId :> NewRow(c, ConnUser(s), t)) @@ messages
          /\ nextId' = nextId + 1
          /\ emitted' = <<ToRoom("new-message", c, nextId, "sent")>>
          /\ timers' = (nextId :> [chatId |-> c, userId |-> ConnUser(s), pc |-> "armed",
                                    othersAtSend |-> OthersIn(c, ConnUser(s)) # {}])
                        @@ timers
  /\ UNCHANGED <<sockVars, chats, participants, reactions, pushVars, sideVars, clientVars, asyncVars>>

\* connectedUsers without the filter on the sender's userId
ConnectedUserIds_unfiltered(c, sender) == {ConnUser(s) : s \in SocketsIn(c)}

\* connectedUsers.filter(s => s.userId !== socket.userId).map(s => s.userId)
ConnectedUserIds(c, sender) ==
  {ConnUser(s) : s \in {x \in SocketsIn(c) : ConnUser(x) # sender}}

\* the setTimeout callback, first part: UPDATE to delivered, broadcast,
\* fetchSockets and the decision on connectedUserIds.length
TimerFire(m) ==
  /\ Idle
  /\ m \in DOMAIN timers
  /\ timers[m].pc = "armed"
  /\ LET c == timers[m].chatId
         others == ConnectedUserIds(c, timers[m].userId)
     IN /\ messages' = UpdateStatus(messages, m, "delivered")
        /\ emitted' = <<ToRoom("message-status-updated", c, m, "delivered")>>
        /\ timers' = IF others # {}
                      THEN [timers EXCEPT ![m].pc = "reading"]
                      ELSE [k \in DOMAIN timers \ {m} |-> timers[k]]
  /\ response' = 0
  /\ UNCHANGED <<sockVars, chats, participants, nextId, reactions, pushVars, sideVars,
                 clientVars, asyncVars>>

\* the setTimeout callback, second part: UPDATE to read and broadcast
TimerMarkRead(m) ==
  /\ Idle
  /\ m \in DOMAIN timers
  /\ timers[m].pc = "reading"
  /\ messages' = UpdateStatus(messages, m, "read")
  /\ emitted' = <<ToRoom("message-status-updated", timers[m].chatId, m, "read")>>
  /\ timers' = [k \in DOMAIN timers \ {m} |-> timers[k]]
  /\ response' = 0
  /\ UNCHANGED <<sockVars, chats, participants, nextId, reactions, pushVars, sideVars,
                 clientVars, asyncVars>>

\* ------------------------------------------------- typing indicators

\* socket.on('typing-start'): socket.to(room) leaves the calling socket out
TypingStart(s, c) ==
  /\ Idle
  /\ s \in connected
  /\ emitted' = <<Emit("user-typing", c, 0, "none", SocketsIn(c) \ {s})>>
  /\ response' = 0
  /\ UNCHANGED <<sockVars, storeVars, timers, pushVars, sideVars, clientVars, asyncVars>>

\* socket.on('typing-stop')
TypingStop(s, c) ==
  /\ Idle
  /\ s \in connected
  /\ emitted' = <<Emit("user-stopped-typing", c, 0, "none", SocketsIn(c) \ {s})>>
  /\ response' = 0
  /\ UNCHANGED <<sockVars, storeVars, timers, pushVars, sideVars, clientVars, asyncVars>>

\* the queries send-message awaits, in the order it makes them
SendQueries == {"participantCheck", "insert", "chatLookup"}

\* socket.on('send-message') when the database rejects the query `failing`:
\* the catch sends the error event, and what was written before stays written
SendMessageFailing(s, c, t, failing) ==
  /\ Idle
  /\ s \in connected
  /\ response' = 0
  /\ IF failing = "participantCheck"
     THEN /\ emitted' = <<ErrorTo(s, "Failed to send message")>>
          /\ UNCHANGED <<messages, nextId>>
     ELSE IF ~IsParticipant(c, ConnUser(s))
     THEN /\ emitted' = <<ErrorTo(s, "Access denied")>>
          /\ UNCHANGED <<messages, nextId>>
     ELSE IF failing = "insert"
     THEN /\ emitted' = <<ErrorTo(s, "Failed to send message")>>
          /\ UNCHANGED <<messages, nextId>>
     ELSE /\ nextId <= MaxMsgs
          /\ messages' = (nextId :> NewRow(c, ConnUser(s), t)) @@ messages
          /\ nextId' = nextId + 1
          /\ emitted' = <<ErrorTo(s, "Failed to send message")>>
  /\ UNCHANGED <<sockVars, chats, participants, reactions, timers, pushVars, sideVars,
                 clientVars, asyncVars>>

\* -------------------------------------------------------------- reactions

\* INSERT INTO message_reactions as if no conflict target and no unique key
\* stood in its way
Upsert_plainInsert(R, row) ==
  IF row \in DOMAIN R THEN [R EXCEPT ![row] = @ + 1] ELSE (row :> 1) @@ R

\* INSERT INTO message_reactions ... ON CONFLICT (message_id, user_id, emoji)
\* DO UPDATE SET created_at: one statement, the row is added when its key is new
Upsert(R, row) == IF row \in DOMAIN R THEN R ELSE (row :> 1) @@ R

\* DELETE FROM message_reactions WHERE message_id, user_id and emoji are row's
DeleteRows(R, row) == [x \in DOMAIN R \ {row} |-> R[x]]

\* the emoji the clients send, in the order the column's comparator gives them
EmojiSeq == <<"x", "y">>

EmojiRank(e) == CHOOSE i \in DOMAIN EmojiSeq : EmojiSeq[i] = e

\* WHERE mr.message_id = $1
RowsOf(R, m) == {r \in DOMAIN R : r[1] = m}

RECURSIVE CountRows(_, _)
\* COUNT(*) over the rows with the keys in S
CountRows(R, S) ==
  IF S = {} THEN 0
  ELSE LET r == CHOOSE x \in S : TRUE IN R[r] + CountRows(R, S \ {r})

\* one row of GROUP BY mr.emoji: the emoji, COUNT(*) and ARRAY_AGG of the users
Group(R, m, e) ==
  LET rows == {r \in RowsOf(R, m) : r[3] = e}
  IN [emoji |-> e, count |-> CountRows(R, rows), users |-> {r[2] : r \in rows}]

\* ORDER BY as if it were ORDER BY mr.emoji alone
GroupBefore_byEmoji(a, b) == EmojiRank(a.emoji) < EmojiRank(b.emoji)

\* ORDER BY COUNT(*) DESC, mr.emoji
GroupBefore(a, b) ==
  \/ a.count > b.count
  \/ a.count = b.count /\ EmojiRank(a.emoji) < EmojiRank(b.emoji)

\* the rows of the aggregate query for message m
Grouped(R, m) ==
  LET groups == {Group(R, m, e) : e \in {r[3] : r \in RowsOf(R, m)}}
      place(g) == 1 + Cardinality({h \in groups : GroupBefore(h, g)})
  IN [i \in 1..Cardinality(groups) |-> CHOOSE g \in groups : place(g) = i]

\* socket.on('add-reaction'): INSERT ... ON CONFLICT DO UPDATE, then broadcast
AddReaction(s, m, e) ==
  /\ Idle
  /\ s \in connected
  /\ response' = 0
  /\ IF ~MessageCheck(m, ConnUser(s))
     THEN /\ emitted' = <<ErrorTo(s, "Message not found or access denied")>>
          /\ UNCHANGED <<reactions, reactionView>>
     ELSE /\ reactions' = Upsert(reactions, <<m, ConnUser(s), e>>)
          /\ reactionView' = Grouped(reactions', m)
          /\ emitted' = <<ToRoom("reaction-updated", messages[m].chat_id, m, "none")>>
  /\ lastToggle' = NoToggle
  /\ UNCHANGED <<sockVars, chats, participants, messages, nextId, timers, pushVars, reacting,
                 clientVars, asyncVars>>

\* socket.on('remove-reaction'): DELETE, then broadcast
RemoveReaction(s, m, e) ==
  /\ Idle
  /\ s \in connected
  /\ response' = 0
  /\ IF ~MessageCheck(m, ConnUser(s))
     THEN /\ emitted' = <<ErrorTo(s, "Message not found or access denied")>>
          /\ UNCHANGED <<reactions, reactionView>>
     ELSE /\ reactions' = DeleteRows(reactions, <<m, ConnUser(s), e>>)
          /\ reactionView' = Grouped(reactions', m)
          /\ emitted' = <<ToRoom("reaction-updated", messages[m].chat_id, m, "none")>>
  /\ lastToggle' = NoToggle
  /\ UNCHANGED <<sockVars, chats, participants, messages, nextId, timers, pushVars, reacting,
                 clientVars, asyncVars>>

\* ---------------------------------------- reactions, query by query
\* Each awaited query is two instants: the database executes it, and later the
\* handler resumes with its result; other handlers run in between.

\* add-reaction / remove-reaction up to the message check
ReactionCheck(s, m, e, op) ==
  /\ Idle
  /\ s \in connected
  /\ response' = 0
  /\ IF ~MessageCheck(m, ConnUser(s))
     THEN /\ emitted' = <<ErrorTo(s, "Message not found or access denied")>>
          /\ UNCHANGED reacting
     ELSE /\ Cardinality(reacting) < MaxReacting
          /\ emitted' = <<>>
          /\ reacting' = reacting \cup {[via |-> "socket", conn |-> s, user |-> ConnUser(s),
                                         msg |-> m, chat |-> messages[m].chat_id, emoji |-> e,
                                         op |-> op, pc |-> "write", view |-> <<>>]}
  /\ UNCHANGED <<sockVars, storeVars, timers, pushVars, reactionView, lastToggle,
                 clientVars, asyncVars>>

\* the database executes the INSERT ... ON CONFLICT or the DELETE of the handler
ReactionWrite(q) ==
  /\ Idle
  /\ q \in reacting
  /\ q.pc = "write"
  /\ reactions' = IF q.op = "add"
                  THEN Upsert(reactions, <<q.msg, q.user, q.emoji>>)
                  ELSE DeleteRows(reactions, <<q.msg, q.user, q.emoji>>)
  /\ reacting' = (reacting \ {q}) \cup {[q EXCEPT !.pc = "select"]}
  /\ UNCHANGED <<sockVars, chats, participants, messages, nextId, timers, emitted, response,
                 pushVars, reactionView, lastToggle, clientVars, asyncVars>>

\* the database executes the aggregate SELECT of the handler
ReactionSelect(q) ==
  /\ Idle
  /\ q \in reacting
  /\ q.pc = "select"
  /\ reacting' = (reacting \ {q}) \cup {[q EXCEPT !.pc = "emit", !.view = Grouped(reactions, q.msg)]}
  /\ UNCHANGED <<sockVars, storeVars, timers, emitted, response, pushVars, reactionView,
                 lastToggle, clientVars, asyncVars>>

\* the handler resumes with reactionsResult.rows and broadcasts them
ReactionEmit(q) ==
  /\ Idle
  /\ q \in reacting
  /\ q.pc = "emit"
  /\ reacting' = reacting \ {q}
  /\ reactionView' = q.view
  /\ emitted' = <<ToRoom("reaction-updated", q.chat, q.msg, "none")>>
  /\ response' = 0
  /\ UNCHANGED <<sockVars, storeVars, timers, pushVars, lastToggle, clientVars, asyncVars>>

\* ------------------------------------------------- routes/messages.js

\* POST /api/messages/:chatId (the INSERT names no status: the column default)
PostMessage(u, c, t) ==
  /\ Idle
  /\ emitted' = <<>>
  /\ IF ~IsParticipant(c, u)
     THEN /\ response' = 403
          /\ UNCHANGED <<messages, nextId>>
     ELSE /\ nextId <= MaxMsgs
          /\ messages' = (nextId :> NewRow(c, u, t)) @@ messages
          /\ nextId' = nextId + 1
          /\ response' = 201
  /\ UNCHANGED <<sockVars, chats, participants, reactions, timers, pushVars, sideVars,
                 clientVars, asyncVars>>

\* POST /api/messages/:chatId/upload-image
UploadImage(u, c) ==
  /\ Idle
  /\ IF ~IsParticipant(c, u)
     THEN /\ response' = 403
          /\ emitted' = <<>>
          /\ UNCHANGED <<messages, nextId>>
     ELSE /\ nextId <= MaxMsgs
          /\ messages' = (nextId :> NewRow(c, u, "image")) @@ messages
          /\ nextId' = nextId + 1
          /\ emitted' = <<ToRoom("new-message", c, nextId, "none")>>
          /\ response' = 201
  /\ UNCHANGED <<sockVars, chats, participants, reactions, timers, pushVars, sideVars,
                 clientVars, asyncVars>>

\* PATCH /api/messages/:messageId/status
PatchStatus(u, m, st) ==
  /\ Idle
  /\ emitted' = <<>>
  /\ IF ~MessageCheck(m, u)
     THEN /\ response' = 404
          /\ UNCHANGED messages
     ELSE /\ messages' = UpdateStatus(messages, m, st)
          /\ response' = 200
  /\ UNCHANGED <<sockVars, chats, participants, nextId, reactions, timers, pushVars, sideVars,
                 clientVars, asyncVars>>

\* the check of PATCH /:messageId as if it did not look at the sender
SenderCheck_anyUser(m, u) == m \in DOMAIN messages

\* SELECT ... FROM messages m WHERE m.id = $1 AND m.sender_id = $2
SenderCheck(m, u) == m \in DOMAIN messages /\ messages[m].sender_id = u

\* PATCH /api/messages/:messageId
EditMessage(u, m, txt) ==
  /\ Idle
  /\ IF ~SenderCheck(m, u)
     THEN /\ response' = 404
          /\ emitted' = <<>>
          /\ UNCHANGED messages
     ELSE IF messages[m].message_type # "text"
     THEN /\ response' = 400
          /\ emitted' = <<>>
          /\ UNCHANGED messages
     ELSE /\ messages' = [messages EXCEPT ![m].content = txt, ![m].edited = TRUE]
          /\ emitted' = <<ToRoom("message-edited", messages[m].chat_id, m, "none")>>
          /\ response' = 200
  /\ UNCHANGED <<sockVars, chats, participants, nextId, reactions, timers, pushVars, sideVars,
                 clientVars, asyncVars>>

\* ------------------------------------------- reactions, statement by statement

\* socket.on('add-reaction') up to its message check
AddReactionCheck(s, m, e) ==
  /\ Idle
  /\ s \in connected
  /\ response' = 0
  /\ IF ~MessageCheck(m, ConnUser(s))
     THEN /\ emitted' = <<ErrorTo(s, "Message not found or access denied")>>
          /\ UNCHANGED reacting
     ELSE /\ Cardinality(reacting) < MaxReacting
          /\ emitted' = <<>>
          /\ reacting' = reacting \cup {[via |-> "socket", conn |-> s, user |-> ConnUser(s),
                                         msg |-> m, chat |-> messages[m].chat_id, emoji |-> e]}
  /\ UNCHANGED <<sockVars, storeVars, timers, pushVars, reactionView, lastToggle,
                 clientVars, asyncVars>>

\* socket.on('add-reaction') from its INSERT on: the rows are read and broadcast;
\* the INSERT fails on the foreign key when the message is gone
AddReactionInsert(q) ==
  /\ Idle
  /\ q \in reacting
  /\ q.via = "socket"
  /\ reacting' = reacting \ {q}
  /\ response' = 0
  /\ IF q.msg \notin DOMAIN messages
     THEN /\ emitted' = <<ErrorTo(q.conn, "Failed to add reaction")>>
          /\ UNCHANGED <<reactions, reactionView>>
     ELSE /\ reactions' = Upsert(reactions, <<q.msg, q.user, q.emoji>>)
          /\ reactionView' = Grouped(reactions', q.msg)
          /\ emitted' = <<ToRoom("reaction-updated", q.chat, q.msg, "none")>>
  /\ lastToggle' = NoToggle
  /\ UNCHANGED <<sockVars, chats, participants, messages, nextId, timers, pushVars,
                 clientVars, asyncVars>>

\* POST /api/messages/:messageId/reactions up to its message check
PostReactionCheck(u, m, e) ==
  /\ Idle
  /\ emitted' = <<>>
  /\ IF ~MessageCheck(m, u)
     THEN /\ response' = 404
          /\ UNCHANGED reacting
     ELSE /\ Cardinality(reacting) < MaxReacting
          /\ response' = 0
          /\ reacting' = reacting \cup {[via |-> "rest", conn |-> "none", user |-> u,
                                         msg |-> m, chat |-> messages[m].chat_id, emoji |-> e]}
  /\ UNCHANGED <<sockVars, storeVars, timers, pushVars, reactionView, lastToggle,
                 clientVars, asyncVars>>

\* POST /api/messages/:messageId/reactions from its INSERT on
PostReactionInsert(q) ==
  /\ Idle
  /\ q \in reacting
  /\ q.via = "rest"
  /\ reacting' = reacting \ {q}
  /\ emitted' = <<>>
  /\ IF q.msg \notin DOMAIN messages
     THEN /\ response' = 500
          /\ UNCHANGED reactions
     ELSE /\ reactions' = Upsert(reactions, <<q.msg, q.user, q.emoji>>)
          /\ response' = 200
  /\ lastToggle' = NoToggle
  /\ UNCHANGED <<sockVars, chats, participants, messages, nextId, timers, pushVars,
                 reactionView, clientVars, asyncVars>>

\* DELETE /api/messages/:messageId/reactions/:emoji
DeleteReaction(u, m, e) ==
  /\ Idle
  /\ emitted' = <<>>
  /\ IF ~MessageCheck(m, u) \/ <<m, u, e>> \notin DOMAIN reactions
     THEN /\ response' = 404
          /\ UNCHANGED reactions
     ELSE /\ reactions' = DeleteRows(reactions, <<m, u, e>>)
          /\ response' = 200
  /\ lastToggle' = NoToggle
  /\ UNCHANGED <<sockVars, chats, participants, messages, nextId, timers, pushVars,
                 reacting, reactionView, clientVars, asyncVars>>

\* GET /api/messages/:messageId/reactions
GetReactions(u, m) ==
  /\ Idle
  /\ emitted' = <<>>
  /\ IF ~MessageCheck(m, u)
     THEN /\ response' = 404
          /\ UNCHANGED reactionView
     ELSE /\ response' = 200
          /\ reactionView' = Grouped(reactions, m)
  /\ UNCHANGED <<sockVars, storeVars, timers, pushVars, reacting, lastToggle, clientVars, asyncVars>>

\* ------------------------------------------ client: components/ChatWindow.js

\* hasReacted of toggleReaction: the user is in some group of currentReactions
HasReacted(currentReactions, u) ==
  \E i \in DOMAIN currentReactions : u \in currentReactions[i].users

\* the table after toggleReaction(m, e, currentReactions) of user u:
\* removeReaction when hasReacted, addReaction when not
ToggleResult(R, m, u, e) ==
  IF HasReacted(Grouped(R, m), u)
  THEN DeleteRows(R, <<m, u, e>>)
  ELSE Upsert(R, <<m, u, e>>)

\* a click on the button of group e under message m in the client of
\* connection s, its message.reactions being the rows of the table: the REST
\* request, and the socket event after it when the REST request was answered ok
ToggleReaction(s, m, e) ==
  LET u == ConnUser(s)
      currentReactions == Grouped(reactions, m)
      ok == HasReacted(currentReactions, u) => <<m, u, e>> \in DOMAIN reactions
  IN /\ Idle
     /\ s \in connected
     /\ MessageCheck(m, u)
     /\ \E i \in DOMAIN currentReactions : currentReactions[i].emoji = e
     /\ reactions' = ToggleResult(reactions, m, u, e)
     /\ response' = IF ok THEN 200 ELSE 404
     /\ emitted' = IF ok THEN <<ToRoom("reaction-updated", messages[m].chat_id, m, "none")>>
                   ELSE <<>>
     /\ reactionView' = IF ok THEN Grouped(reactions', m) ELSE <<>>
     /\ lastToggle' = [conn |-> s, msg |-> m, emoji |-> e, before |-> reactions]
     /\ UNCHANGED <<sockVars, chats, participants, messages, nextId, timers, pushVars,
                    reacting, clientVars, asyncVars>>

\* ------------------------------------------ client: contexts/SocketContext.js

\* setCurrentChat(chatId): the chat open in the window; the join-chat it emits
\* is the server's JoinChat
SetCurrentChat(c) ==
  /\ Idle
  /\ currentChatId' = c
  /\ UNCHANGED <<sockVars, storeVars, timers, emitted, response, pushVars, sideVars,
                 asyncVars, isPageVisible, notified, swQueue, swSeq, shown>>

\* handleVisibilityChange: the page is hidden or shown again
VisibilityChange ==
  /\ Idle
  /\ isPageVisible' = ~isPageVisible
  /\ UNCHANGED <<sockVars, storeVars, timers, emitted, response, pushVars, sideVars,
                 asyncVars, currentChatId, notified, swQueue, swSeq, shown>>

\* shouldShowNotification as if the sender of the message were not looked at
ShouldShowNotification_ownToo(userId, message) ==
  message.chat_id # currentChatId \/ ~isPageVisible

\* shouldShowNotification of the new-message handler of the client of userId
ShouldShowNotification(userId, message) ==
  LET isOwnMessage == message.user_id = userId
      isCurrentChat == message.chat_id = currentChatId
  IN ~isOwnMessage /\ (~isCurrentChat \/ ~isPageVisible)

\* newSocket.on('new-message') in the client of ClientConn, for the event
\* emitted[i] delivered to it: the toast and the browser notification are raised
\* when shouldShowNotification
OnNewMessage(i) ==
  /\ i \in DOMAIN emitted
  /\ emitted[i].event = "new-message"
  /\ ClientConn \in emitted[i].to
  /\ \A k \in DOMAIN notified : notified[k].msg # emitted[i].msg
  /\ LET message == [id |-> emitted[i].msg, chat_id |-> emitted[i].chat,
                     user_id |-> messages[emitted[i].msg].sender_id]
     IN notified' = Append(notified,
                           [msg |-> message.id, chat_id |-> message.chat_id,
                            user_id |-> message.user_id,
                            toast |-> ShouldShowNotification(ConnUser(ClientConn), message)])
  /\ UNCHANGED <<sockVars, storeVars, timers, emitted, response, pushVars, sideVars,
                 asyncVars, currentChatId, isPageVisible, swQueue, swSeq, shown>>

\* ------------------------------------------------------------ ChatWindow

\* socket.on('send-message') up to the await of its chat lookup: the row is inserted
SendInsert(s, c) ==
  /\ Idle
  /\ s \in connected
  /\ response' = 0
  /\ IF ~IsParticipant(c, ConnUser(s))
     THEN /\ emitted' = <<ErrorTo(s, "Access denied")>>
          /\ UNCHANGED <<messages, nextId, sending>>
     ELSE /\ nextId <= MaxMsgs
          /\ messages' = (nextId :> NewRow(c, ConnUser(s), "text")) @@ messages
          /\ nextId' = nextId + 1
          /\ sending' = sending \cup {nextId}
          /\ emitted' = <<>>
  /\ UNCHANGED <<sockVars, chats, participants, reactions, timers, pushVars, sideVars,
                 clientVars, flushes, liveTimers, clientMessages, fetching, swOps>>

\* socket.on('send-message') from the result of its chat lookup on: the
\* broadcast and the setTimeout
SendBroadcast(m) ==
  /\ Idle
  /\ m \in sending
  /\ sending' = sending \ {m}
  /\ response' = 0
  /\ emitted' = <<ToRoom("new-message", messages[m].chat_id, m, "sent")>>
  /\ timers' = (m :> [chatId |-> messages[m].chat_id, userId |-> messages[m].sender_id,
                      pc |-> "armed",
                      othersAtSend |-> OthersIn(messages[m].chat_id, messages[m].sender_id) # {}])
                @@ timers
  /\ UNCHANGED <<sockVars, storeVars, pushVars, sideVars, clientVars, flushes, liveTimers,
                 clientMessages, fetching, swOps>>

\* fetchMessages of the open chat up to the answer of GET /api/messages/:chatId:
\* the rows of the chat as the server read them, oldest first after
\* messages.reverse() (one page holds them all)
FetchMessages ==
  /\ Idle
  /\ currentChatId # NoChat
  /\ Len(fetching) < MaxFetching
  /\ emitted' = <<>>
  /\ IF ~IsParticipant(currentChatId, ConnUser(ClientConn))
     THEN /\ response' = 403
          /\ UNCHANGED fetching
     ELSE /\ response' = 200
          /\ fetching' = Append(fetching,
                                Ascending({m \in DOMAIN messages :
                                              messages[m].chat_id = currentChatId}))
  /\ UNCHANGED <<sockVars, storeVars, timers, pushVars, sideVars, clientVars, flushes,
                 liveTimers, clientMessages, sending, swOps>>

\* fetchMessages when the answer arrived: setMessages(data.messages)
FetchArrive(i) ==
  /\ i \in DOMAIN fetching
  /\ clientMessages' = fetching[i]
  /\ fetching' = [k \in 1..(Len(fetching) - 1) |-> IF k < i THEN fetching[k] ELSE fetching[k + 1]]
  /\ UNCHANGED <<sockVars, storeVars, timers, emitted, response, pushVars, sideVars,
                 clientVars, flushes, liveTimers, sending, swOps>>

\* the listeners of 'new-message' in the client of ClientConn, for the event
\* emitted[i] delivered to it: SocketContext's, and handleNewMessage of
\* ChatWindow, which puts a message of the open chat at the end of its list
HandleNewMessage(i) ==
  /\ i \in DOMAIN emitted
  /\ emitted[i].event = "new-message"
  /\ ClientConn \in emitted[i].to
  /\ \A k \in DOMAIN notified : notified[k].msg # emitted[i].msg
  /\ LET message == [id |-> emitted[i].msg, chat_id |-> emitted[i].chat,
                     user_id |-> messages[emitted[i].msg].sender_id]
     IN /\ notified' = Append(notified,
                              [msg |-> message.id, chat_id |-> message.chat_id,
                               user_id |-> message.user_id,
                               toast |-> ShouldShowNotification(ConnUser(ClientConn), message)])
        /\ clientMessages' = IF message.chat_id # currentChatId
                             THEN clientMessages
                             ELSE Append(clientMessages, message.id)
  /\ UNCHANGED <<sockVars, storeVars, timers, emitted, response, pushVars, sideVars,
                 currentChatId, isPageVisible, swQueue, swSeq, shown, flushes, liveTimers,
                 fetching, sending, swOps>>

\* ------------------------------------------------------- service worker

\* addToNotificationQueue as if it put the notification at the back
AddToNotificationQueue_atBack(queue, n) ==
  LET q == Append(queue, n)
  IN IF Len(q) > MAX_QUEUE_SIZE THEN SubSeq(q, 1, MAX_QUEUE_SIZE) ELSE q

\* addToNotificationQueue as if it never cut the queue
AddToNotificationQueue_unbounded(queue, n) == <<n>> \o queue

\* addToNotificationQueue: queue.unshift, then queue.splice(MAX_QUEUE_SIZE)
AddToNotificationQueue(queue, n) ==
  LET q == <<n>> \o queue
  IN IF Len(q) > MAX_QUEUE_SIZE THEN SubSeq(q, 1, MAX_QUEUE_SIZE) ELSE q

\* handlePushEvent (via "push") and the SHOW_NOTIFICATION message (via
\* "message"): showNotification, and the notification is queued when it rejects;
\* shown tells a replay from the queue by via "queue"
ShowOrQueue(via, canShow) ==
  /\ Idle
  /\ swSeq < MaxShown
  /\ swSeq' = swSeq + 1
  /\ IF canShow
     THEN /\ shown' = <<[id |-> swSeq + 1, via |-> via]>>
          /\ UNCHANGED swQueue
     ELSE /\ shown' = <<>>
          /\ swQueue' = AddToNotificationQueue(swQueue, [id |-> swSeq + 1])
  /\ UNCHANGED <<sockVars, storeVars, timers, emitted, response, pushVars, sideVars,
                 asyncVars, currentChatId, isPageVisible, notified>>

\* the APP_ACTIVE message: processQueuedNotifications. canRead and canWrite say
\* whether the store gives and takes the queue, canShow whether showNotification
\* resolves
AppActive(canShow, canRead, canWrite) ==
  /\ Idle
  /\ LET queue == IF canRead THEN swQueue ELSE <<>>
     IN IF queue = <<>> \/ ~canShow
        THEN UNCHANGED <<shown, swQueue>>
        ELSE /\ shown' = <<[id |-> queue[1].id, via |-> "queue"]>>
             /\ swQueue' = IF canWrite THEN <<>> ELSE swQueue
  /\ UNCHANGED <<sockVars, storeVars, timers, emitted, response, pushVars, sideVars,
                 asyncVars, currentChatId, isPageVisible, notified, swSeq>>

\* the CLEAR_NOTIFICATION_QUEUE message: clearNotificationQueue
ClearNotificationQueue ==
  /\ Idle
  /\ swQueue' = <<>>
  /\ UNCHANGED <<sockVars, storeVars, timers, emitted, response, pushVars, sideVars,
                 asyncVars, currentChatId, isPageVisible, notified, swSeq, shown>>

\* ------------------------------------- service worker, await by await

\* the listeners of the page that post APP_ACTIVE when it comes back to the
\* foreground, in the order they run
ActiveHandlers == <<"visibilitychange", "periodicVisibilitychange", "focus">>

\* a call of the service worker in progress
AddOp(n, queue) ==
  [kind |-> "add", pc |-> "write", queue |-> queue, n |-> n, from |-> "none", shownId |-> 0]

ReplayOp(h) ==
  [kind |-> "replay", pc |-> "read", queue |-> <<>>, n |-> [id |-> 0], from |-> h, shownId |-> 0]

\* the sequence without its element i
Without(seq, i) == [k \in 1..(Len(seq) - 1) |-> IF k < i THEN seq[k] ELSE seq[k + 1]]

\* the places a call can have in swOps
OpIndexes == 1..(MaxOps + Len(ActiveHandlers))

\* the calls of one kind in progress
OpsOf(kind) == SelectSeq(swOps, LAMBDA o : o.kind = kind)

\* a showNotification rejected, and addToNotificationQueue up to the answer of
\* getNotificationQueue
AddToQueueRead ==
  /\ swSeq < MaxQueued
  /\ Len(OpsOf("add")) < MaxOps
  /\ swSeq' = swSeq + 1
  /\ swOps' = Append(swOps, AddOp([id |-> swSeq + 1], swQueue))
  /\ UNCHANGED <<sockVars, storeVars, timers, emitted, response, pushVars, sideVars, flushes,
                 liveTimers, viewVars, currentChatId, isPageVisible, notified, swQueue, shown>>

\* addToNotificationQueue from the queue it read on: unshift, splice and
\* setNotificationQueue
AddToQueueWrite(i) ==
  /\ i \in DOMAIN swOps
  /\ swOps[i].kind = "add"
  /\ swQueue' = AddToNotificationQueue(swOps[i].queue, swOps[i].n)
  /\ swOps' = Without(swOps, i)
  /\ UNCHANGED <<sockVars, storeVars, timers, emitted, response, pushVars, sideVars, flushes,
                 liveTimers, viewVars, currentChatId, isPageVisible, notified, swSeq, shown>>

\* the page comes back to the foreground: each listener of H that runs calls
\* refreshNotificationCapability, which posts APP_ACTIVE; the calls of the
\* return before, all ended, are forgotten
Foreground(H) ==
  /\ H # {}
  /\ \A i \in DOMAIN swOps : swOps[i].kind = "replay" => swOps[i].pc = "done"
  /\ swOps' = OpsOf("add")
                \o [k \in 1..Cardinality(H) |->
                      ReplayOp(SelectSeq(ActiveHandlers, LAMBDA h : h \in H)[k])]
  /\ UNCHANGED <<sockVars, storeVars, timers, emitted, response, pushVars, sideVars, flushes,
                 liveTimers, viewVars, clientVars>>

\* processQueuedNotifications up to the answer of getNotificationQueue
ReplayRead(i) ==
  /\ i \in DOMAIN swOps
  /\ swOps[i].kind = "replay"
  /\ swOps[i].pc = "read"
  /\ swOps' = [swOps EXCEPT ![i].queue = swQueue,
                            ![i].pc = IF swQueue = <<>> THEN "done" ELSE "show"]
  /\ UNCHANGED <<sockVars, storeVars, timers, emitted, response, pushVars, sideVars, flushes,
                 liveTimers, viewVars, clientVars>>

\* processQueuedNotifications: showNotification of queue[0]; when it rejects
\* the call ends with the queue as it is
ReplayShow(i, canShow) ==
  /\ i \in DOMAIN swOps
  /\ swOps[i].kind = "replay"
  /\ swOps[i].pc = "show"
  /\ IF canShow
     THEN /\ shown' = Append(shown, [id |-> swOps[i].queue[1].id, via |-> "queue"])
          /\ swOps' = [swOps EXCEPT ![i].shownId = swOps[i].queue[1].id, ![i].pc = "clear"]
     ELSE /\ swOps' = [swOps EXCEPT ![i].pc = "done"]
          /\ UNCHANGED shown
  /\ UNCHANGED <<sockVars, storeVars, timers, emitted, response, pushVars, sideVars, flushes,
                 liveTimers, viewVars, currentChatId, isPageVisible, notified, swQueue, swSeq>>

\* processQueuedNotifications: clearNotificationQueue
ReplayClear(i) ==
  /\ i \in DOMAIN swOps
  /\ swOps[i].kind = "replay"
  /\ swOps[i].pc = "clear"
  /\ swQueue' = <<>>
  /\ swOps' = [swOps EXCEPT ![i].pc = "done"]
  /\ UNCHANGED <<sockVars, storeVars, timers, emitted, response, pushVars, sideVars, flushes,
                 liveTimers, viewVars, currentChatId, isPageVisible, notified, swSeq, shown>>

\* ---------------------------------------------------- routes/chats.js

\* DELETE FROM chats WHERE id = $1, with its ON DELETE CASCADE rows
DropChat(c) ==
  LET gone == {m \in DOMAIN messages : messages[m].chat_id = c}
  IN /\ chats' = chats \ {c}
     /\ participants' = [participants EXCEPT ![c] = {}]
     /\ messages' = [m \in DOMAIN messages \ gone |-> messages[m]]
     /\ reactions' = [r \in {x \in DOMAIN reactions : x[1] \notin gone} |-> reactions[r]]

\* DELETE /api/chats/:chatId/leave
LeaveChat(u, c) ==
  /\ Idle
  /\ emitted' = <<>>
  /\ IF ~IsParticipant(c, u)
     THEN /\ response' = 403
          /\ UNCHANGED <<chats, participants, messages, reactions>>
     ELSE IF c \notin chats
     THEN /\ response' = 404
          /\ UNCHANGED <<chats, participants, messages, reactions>>
     ELSE IF participants[c] = {u}
     THEN /\ DropChat(c)
          /\ response' = 200
     ELSE /\ participants' = [participants EXCEPT ![c] = @ \ {u}]
          /\ response' = 200
          /\ UNCHANGED <<chats, messages, reactions>>
  /\ UNCHANGED <<sockVars, nextId, timers, pushVars, sideVars, clientVars, asyncVars>>

\* DELETE /api/chats/:chatId
DeleteChat(u, c) ==
  /\ Idle
  /\ emitted' = <<>>
  /\ IF c \notin chats
     THEN /\ response' = 404
          /\ UNCHANGED <<chats, participants, messages, reactions>>
     ELSE IF CreatedBy(c) # u
     THEN /\ response' = 403
          /\ UNCHANGED <<chats, participants, messages, reactions>>
     ELSE /\ DropChat(c)
          /\ response' = 200
  /\ UNCHANGED <<sockVars, nextId, timers, pushVars, sideVars, clientVars, asyncVars>>

\* ------------------------------------- services/pushNotificationService.js

\* getUserSubscriptions(userId), by endpoint
UserSubscriptions(u) == {e \in Endpoints : <<u, e>> \in subscriptions}

\* the requests that may be inside storeSubscription at a time
ReqIds == 1..MaxSubscribing

\* POST /api/push/subscribe, storeSubscription up to the answer of its SELECT:
\* whether a row of the user and endpoint exists
StoreSubscriptionSelect(r, u, e) ==
  /\ Idle
  /\ r \notin DOMAIN subscribing
  /\ subscribing' = (r :> [userId |-> u, endpoint |-> e, existing |-> <<u, e>> \in subscriptions])
                      @@ subscribing
  /\ UNCHANGED <<sideVars, sockVars, storeVars, timers, emitted, response, subscriptions, isConfigured,
                 notificationQueue, pushSeq, pushed, sinceArrival, burst, clientVars, asyncVars>>

\* storeSubscription from its write on, and the route's answer: UPDATE when the
\* SELECT found a row, INSERT when not; UNIQUE(user_id, endpoint) fails the
\* INSERT of a pair that is stored by now, the catch returns false and the
\* route answers 500
StoreSubscriptionWrite(r) ==
  /\ Idle
  /\ r \in DOMAIN subscribing
  /\ LET row == <<subscribing[r].userId, subscribing[r].endpoint>>
     IN IF subscribing[r].existing
        THEN /\ response' = 200
             /\ UNCHANGED subscriptions
        ELSE IF row \in subscriptions
        THEN /\ response' = 500
             /\ UNCHANGED subscriptions
        ELSE /\ response' = 200
             /\ subscriptions' = subscriptions \cup {row}
  /\ subscribing' = [k \in DOMAIN subscribing \ {r} |-> subscribing[k]]
  /\ UNCHANGED <<sideVars, sockVars, storeVars, timers, emitted, isConfigured, notificationQueue,
                 pushSeq, pushed, sinceArrival, burst, clientVars, asyncVars>>

\* removeSubscription(userId, endpoint), called by DELETE /api/push/unsubscribe
RemoveSubscription(u, e) ==
  /\ Idle
  /\ subscriptions' = subscriptions \ {<<u, e>>}
  /\ response' = 200
  /\ UNCHANGED <<sideVars, sockVars, storeVars, timers, emitted, isConfigured, notificationQueue,
                 pushSeq, pushed, sinceArrival, burst, subscribing, clientVars, asyncVars>>

\* the queries of a sendToUser call that fail: the lookup, the deletions
Faults == [lookup : BOOLEAN, delete : BOOLEAN]

\* a call with the store answering every query
NoFault == [lookup |-> FALSE, delete |-> FALSE]

\* getUserSubscriptions(userId) as sendToUser sees it: the catch of a failed
\* query returns []
GetUserSubscriptions(u, fault) == IF fault.lookup THEN {} ELSE UserSubscriptions(u)

\* the order the rows are gone through in
EndpointSeq == <<"e1", "e2">>

\* the loop of sendToUser as if the first failed attempt ended it
Attempts_stopAtFailure(subs, outcome) ==
  LET order == SelectSeq(EndpointSeq, LAMBDA e : e \in subs)
      upTo == IF \E i \in 1..Len(order) : outcome[order[i]] # "ok"
              THEN CHOOSE i \in 1..Len(order) :
                     /\ outcome[order[i]] # "ok"
                     /\ \A j \in 1..(i - 1) : outcome[order[j]] = "ok"
              ELSE Len(order)
  IN [i \in 1..upTo |->
        [subscription |-> order[i], outcome |-> outcome[order[i]],
         success |-> outcome[order[i]] = "ok"]]

\* the loop of sendToUser: one webpush.sendNotification per subscription, in a
\* try of its own, outcome[e] being what the provider answers for endpoint e
Attempts(subs, outcome) ==
  LET order == SelectSeq(EndpointSeq, LAMBDA e : e \in subs)
  IN [i \in 1..Len(order) |->
        [subscription |-> order[i], outcome |-> outcome[order[i]],
         success |-> outcome[order[i]] = "ok"]]

\* sendToUser as if a dispatch that fails otherwise than gone were not caught
Uncaught_dispatchError(subs, outcome, fault) == {e \in subs : outcome[e] = "error"}

\* the failures of a sendToUser call that leave it as an exception: none, the
\* lookup's is caught in getUserSubscriptions, a dispatch's in the loop, a
\* deletion's in removeSubscription, and the body is in a try
Uncaught(subs, outcome, fault) == {}

\* sendToUser(userId, payload): the call, its attempts and what it returns
SendToUser(u, payload, outcome, fault) ==
  LET subs == GetUserSubscriptions(u, fault)
      results == Attempts(subs, outcome)
      successCount == Cardinality({i \in DOMAIN results : results[i].success})
  IN IF ~isConfigured
     THEN [userId |-> u, payload |-> payload, attempts |-> <<>>, uncaught |-> {},
           result |-> [success |-> FALSE, error |-> "Push notifications not configured"]]
     ELSE IF subs = {}
     THEN [userId |-> u, payload |-> payload, attempts |-> <<>>, uncaught |-> {},
           result |-> [success |-> FALSE, error |-> "No subscriptions found"]]
     ELSE [userId |-> u, payload |-> payload, attempts |-> results,
           uncaught |-> Uncaught(subs, outcome, fault),
           result |-> [success |-> successCount > 0, sent |-> successCount,
                       total |-> Cardinality(subs)]]

\* sendToUser as if it removed the subscription of every failed attempt
Gone_anyFailure(u, outcome, fault) ==
  IF isConfigured /\ ~fault.delete
  THEN {<<u, e>> : e \in {x \in GetUserSubscriptions(u, fault) : outcome[x] # "ok"}}
  ELSE {}

\* the subscriptions sendToUser removes: those answered 410 or 404, when the
\* DELETE does not fail
Gone(u, outcome, fault) ==
  IF isConfigured /\ ~fault.delete
  THEN {<<u, e>> : e \in {x \in GetUserSubscriptions(u, fault) : outcome[x] = "gone"}}
  ELSE {}

\* POST /api/push/test: sendToUser for the caller
TestPush(u, outcome, fault) ==
  /\ Idle
  /\ pushed' = <<SendToUser(u, [title |-> "Test Notification", type |-> "test"], outcome, fault)>>
  /\ subscriptions' = subscriptions \ Gone(u, outcome, fault)
  /\ response' = 200
  /\ UNCHANGED <<sideVars, sockVars, storeVars, timers, emitted, isConfigured, notificationQueue,
                 pushSeq, sinceArrival, burst, subscribing, clientVars, asyncVars>>

\* the recipients sendMessageNotification's query selects, $2 being
\* excludeUserId || message.user_id; user_id != NULL selects no row
Recipients(c, sender, exclude) ==
  LET x == IF exclude # NoUser THEN exclude ELSE sender
  IN IF x = NoUser THEN {} ELSE {u \in participants[c] : u # x}

\* userQueue if messages.push left the timeout as it was
QueueAfterPush_notArmed(q, msg) == [messages |-> Append(q.messages, msg), timeout |-> q.timeout]

\* userQueue if the new message took the place of the queued ones
QueueAfterPush_replacing(q, msg) == [messages |-> <<msg>>, timeout |-> 0]

\* userQueue after messages.push and the timeout set anew
QueueAfterPush(q, msg) == [messages |-> Append(q.messages, msg), timeout |-> 0]

\* the live timers of a user if the timer in userQueue.timeout were not cleared
LiveAfterPush_noClear(q, n) == n + 1

\* the live timers of a user after clearTimeout(userQueue.timeout), when there
\* is one, and the setTimeout that follows
LiveAfterPush(q, n) == (IF q.timeout # NoTimer THEN n - 1 ELSE n) + 1

\* the history of arrivals: a gap of BATCH_DELAY or more starts a new burst, which
\* is tight when the burst before it has been dispatched
BurstAfterArrival(u) ==
  IF sinceArrival[u] < BATCH_DELAY
  THEN [burst[u] EXCEPT !.n = @ + 1]
  ELSE [n |-> 1, tight |-> burst[u].n = 0 \/ burst[u].dispatches > 0, dispatches |-> 0]

\* sendMessageNotification(message, chatInfo, excludeUserId) and the
\* batchMessageNotification it calls
SendMessageNotification(c, sender, exclude) ==
  /\ Idle
  /\ pushSeq < MaxNotifs
  /\ pushSeq' = pushSeq + 1
  /\ LET msg == [id |-> pushSeq + 1, chat_id |-> c, sender |-> sender]
         userIds == Recipients(c, sender, exclude)
     IN /\ notificationQueue' = [u \in Users |->
                                   IF u \in userIds
                                   THEN QueueAfterPush(notificationQueue[u], msg)
                                   ELSE notificationQueue[u]]
        /\ sinceArrival' = [u \in Users |-> IF u \in userIds THEN 0 ELSE sinceArrival[u]]
        /\ burst' = [u \in Users |-> IF u \in userIds THEN BurstAfterArrival(u) ELSE burst[u]]
        /\ liveTimers' = [u \in Users |->
                            IF u \in userIds
                            THEN LiveAfterPush(notificationQueue[u], liveTimers[u])
                            ELSE liveTimers[u]]
  /\ UNCHANGED <<sideVars, sockVars, storeVars, timers, emitted, response, subscriptions,
                 isConfigured, pushed, subscribing, clientVars, flushes, viewVars, swOps>>

\* the payload sendBatchedNotification builds
BatchPayload(msgs) ==
  [title |-> <<msgs[1].sender, msgs[1].chat_id>>,
   body |-> IF Len(msgs) = 1 THEN <<"content", msgs[1].id>> ELSE <<"new messages", Len(msgs)>>,
   chatId |-> msgs[1].chat_id,
   messageId |-> msgs[1].id,
   batchCount |-> Len(msgs)]

\* userQueue if sendBatchedNotification left the messages in it
QueueAfterFlush_notCleared(q) == [messages |-> q.messages, timeout |-> NoTimer]

\* userQueue if sendBatchedNotification left the handle of the fired timer in it
QueueAfterFlush_timerLeft(q) == [messages |-> <<>>, timeout |-> q.timeout]

\* userQueue after sendBatchedNotification cleared it
QueueAfterFlush(q) == [messages |-> <<>>, timeout |-> NoTimer]

\* the setTimeout callback of batchMessageNotification: sendBatchedNotification(userId)
FlushTimer(u, outcome, fault) ==
  /\ Idle
  /\ notificationQueue[u].timeout = BATCH_DELAY
  /\ IF notificationQueue[u].messages = <<>>
     THEN /\ notificationQueue' = [notificationQueue EXCEPT ![u].timeout = NoTimer]
          /\ UNCHANGED <<pushed, subscriptions, burst>>
     ELSE /\ pushed' = <<SendToUser(u, BatchPayload(notificationQueue[u].messages),
                                    outcome, fault)>>
          /\ subscriptions' = subscriptions \ Gone(u, outcome, fault)
          /\ notificationQueue' = [notificationQueue EXCEPT ![u] = QueueAfterFlush(@)]
          /\ burst' = [burst EXCEPT ![u].dispatches = @ + 1]
  /\ liveTimers' = [liveTimers EXCEPT ![u] = @ - 1]
  /\ UNCHANGED <<sideVars, sockVars, storeVars, timers, emitted, response, isConfigured, pushSeq,
                 sinceArrival, subscribing, clientVars, flushes, viewVars, swOps>>

\* the ids of the queued notifications, in order
IdsOf(msgs) == [j \in DOMAIN msgs |-> msgs[j].id]

\* sendBatchedNotification up to its await: the payload is built from the queue
\* and the queue is cleared in one run of the event loop
FlushStart(u) ==
  /\ Idle
  /\ notificationQueue[u].timeout = BATCH_DELAY
  /\ IF notificationQueue[u].messages = <<>>
     THEN /\ notificationQueue' = [notificationQueue EXCEPT ![u].timeout = NoTimer]
          /\ UNCHANGED <<flushes, burst>>
     ELSE /\ flushes' = Append(flushes,
                               [userId |-> u,
                                ids |-> IdsOf(notificationQueue[u].messages),
                                payload |-> BatchPayload(notificationQueue[u].messages),
                                sent |-> FALSE])
          /\ notificationQueue' = [notificationQueue EXCEPT ![u] = QueueAfterFlush(@)]
          /\ burst' = [burst EXCEPT ![u].dispatches = @ + 1]
  /\ liveTimers' = [liveTimers EXCEPT ![u] = @ - 1]
  /\ UNCHANGED <<sideVars, sockVars, storeVars, timers, emitted, response, subscriptions,
                 isConfigured, pushSeq, pushed, sinceArrival, subscribing, clientVars,
                 viewVars, swOps>>

\* sendBatchedNotification after its await: the sendToUser call of flush i
FlushSend(i, outcome) ==
  /\ Idle
  /\ i \in DOMAIN flushes
  /\ ~flushes[i].sent
  /\ pushed' = <<SendToUser(flushes[i].userId, flushes[i].payload, outcome, NoFault)>>
  /\ subscriptions' = subscriptions \ Gone(flushes[i].userId, outcome, NoFault)
  /\ flushes' = [flushes EXCEPT ![i].sent = TRUE]
  /\ UNCHANGED <<sideVars, sockVars, storeVars, timers, emitted, response, isConfigured,
                 notificationQueue, pushSeq, sinceArrival, burst, subscribing, clientVars,
                 liveTimers, viewVars, swOps>>

\* ms later, or BATCH_DELAY when it is more
Later(t) == IF t + TickMs > BATCH_DELAY THEN BATCH_DELAY ELSE t + TickMs

\* time passes; a timer that is due runs before more time passes
Tick ==
  /\ Idle
  /\ \A u \in Users : notificationQueue[u].timeout # BATCH_DELAY
  /\ \E u \in Users : notificationQueue[u].timeout # NoTimer \/ sinceArrival[u] # BATCH_DELAY
  /\ notificationQueue' = [u \in Users |->
                             IF notificationQueue[u].timeout = NoTimer
                             THEN notificationQueue[u]
                             ELSE [notificationQueue[u] EXCEPT !.timeout = Later(@)]]
  /\ sinceArrival' = [u \in Users |-> Later(sinceArrival[u])]
  /\ UNCHANGED <<sideVars, sockVars, storeVars, timers, emitted, response, subscriptions,
                 isConfigured, pushSeq, pushed, burst, subscribing, clientVars, asyncVars>>

\* ------------------------------------------------------------------ Next

\* the message lifecycle: connections, send-message and its timer, join-chat,
\* the REST routes that create a message or set its status
Next ==
  \/ EndTurn
  \/ \E s \in Conns : Connect(s)
  \/ \E s \in Conns : Disconnect(s)
  \/ \E s \in Conns : JoinChats(s)
  \/ \E s \in Conns, c \in Chats : JoinChat(s, c)
  \/ \E s \in Conns, c \in Chats : SendMessage(s, c, "text")
  \/ \E m \in MsgIds : TimerFire(m)
  \/ \E m \in MsgIds : TimerMarkRead(m)
  \/ \E u \in Users, c \in Chats : PostMessage(u, c, "text")
  \/ \E u \in Users, c \in Chats : UploadImage(u, c)
  \/ \E u \in Users, m \in MsgIds, st \in Statuses : PatchStatus(u, m, st)

Spec == Init /\ [][Next]_vars

\* every handler that broadcasts to a room, on the sockets of two users; u2, who
\* is in both chats, uploads and reacts
FanoutConns == {"s1", "s2"}

FanoutNext ==
  \/ EndTurn
  \/ \E s \in FanoutConns : Connect(s)
  \/ \E s \in FanoutConns : Disconnect(s)
  \/ \E s \in FanoutConns : JoinChats(s)
  \/ \E s \in FanoutConns, c \in Chats : JoinChat(s, c)
  \/ \E s \in FanoutConns, c \in Chats : SendMessage(s, c, "text")
  \/ \E m \in MsgIds : TimerFire(m)
  \/ \E m \in MsgIds : TimerMarkRead(m)
  \/ \E c \in Chats : UploadImage("u2", c)
  \/ \E s \in FanoutConns, c \in Chats : TypingStart(s, c)
  \/ \E s \in FanoutConns, c \in Chats : TypingStop(s, c)
  \/ \E m \in MsgIds, e \in Emojis : AddReaction("s2", m, e)
  \/ \E m \in MsgIds, e \in Emojis : RemoveReaction("s2", m, e)
  \/ \E u \in Users, m \in MsgIds : EditMessage(u, m, "new")

FanoutSpec == Init /\ [][FanoutNext]_vars

\* the handlers that check who the caller is, with users leaving chats
AccessNext ==
  \/ EndTurn
  \/ \E s \in FanoutConns : Connect(s)
  \/ \E s \in FanoutConns : JoinChats(s)
  \/ \E s \in FanoutConns, c \in Chats : SendMessage(s, c, "text")
  \/ \E m \in MsgIds : TimerFire(m)
  \/ \E m \in MsgIds : TimerMarkRead(m)
  \/ \E s \in FanoutConns, m \in MsgIds, e \in Emojis : AddReaction(s, m, e)
  \/ \E s \in FanoutConns, m \in MsgIds, e \in Emojis : RemoveReaction(s, m, e)
  \/ \E u \in Users, m \in MsgIds : EditMessage(u, m, "new")
  \/ \E u \in Users, c \in Chats : LeaveChat(u, c)
  \/ \E u \in Users, c \in Chats : DeleteChat(u, c)

AccessSpec == Init /\ [][AccessNext]_vars

\* the broadcasts of chat c1 with two devices of u1 and one of u2 connected
DeviceNext ==
  \/ EndTurn
  \/ \E s \in Conns : Connect(s)
  \/ \E s \in Conns : Disconnect(s)
  \/ \E s \in Conns : JoinChats(s)
  \/ \E s \in Conns : JoinChat(s, "c1")
  \/ \E s \in Conns : SendMessage(s, "c1", "text")
  \/ \E m \in MsgIds : TimerFire(m)
  \/ \E m \in MsgIds : TimerMarkRead(m)
  \/ UploadImage("u2", "c1")
  \/ \E m \in MsgIds, e \in Emojis : AddReaction("s1", m, e)
  \/ \E m \in MsgIds, e \in Emojis : RemoveReaction("s1", m, e)
  \/ \E m \in MsgIds : EditMessage("u1", m, "new")

DeviceSpec == Init /\ [][DeviceNext]_vars

\* joining rooms while members send, leave and delete chats
MembershipNext ==
  \/ EndTurn
  \/ \E s \in FanoutConns : Connect(s)
  \/ \E s \in FanoutConns : Disconnect(s)
  \/ \E s \in FanoutConns : JoinChats(s)
  \/ \E s \in FanoutConns, c \in Chats : JoinChat(s, c)
  \/ \E s \in FanoutConns, c \in Chats : SendMessage(s, c, "text")
  \/ \E m \in MsgIds : TimerFire(m)
  \/ \E m \in MsgIds : TimerMarkRead(m)
  \/ \E u \in Users, c \in Chats : LeaveChat(u, c)
  \/ \E u \in Users, c \in Chats : DeleteChat(u, c)

MembershipSpec == Init /\ [][MembershipNext]_vars

\* subscribe requests of the users, several inside storeSubscription at a time
SubscribeNext ==
  \/ EndTurn
  \/ \E r \in ReqIds, u \in Users, e \in Endpoints : StoreSubscriptionSelect(r, u, e)
  \/ \E r \in ReqIds : StoreSubscriptionWrite(r)

SubscribeSpec == Init /\ [][SubscribeNext]_vars

\* sendToUser through POST /api/push/test, for users who subscribe and
\* unsubscribe two endpoints
GatewayUsers == {"u2", "u3"}

GatewayNext ==
  \/ EndTurn
  \/ \E u \in GatewayUsers, e \in Endpoints : StoreSubscriptionSelect(1, u, e)
  \/ StoreSubscriptionWrite(1)
  \/ \E u \in GatewayUsers, e \in Endpoints : RemoveSubscription(u, e)
  \/ \E u \in GatewayUsers, outcome \in [Endpoints -> Outcomes] : TestPush(u, outcome, NoFault)

\* the gateway with failing queries, dispatches and flushes for u2, beside u1
\* sending a message in chat c1
FaultNext ==
  \/ EndTurn
  \/ \E s \in FanoutConns : Connect(s)
  \/ JoinChats("s2")
  \/ SendMessage("s1", "c1", "text")
  \/ \E m \in MsgIds : TimerFire(m)
  \/ \E m \in MsgIds : TimerMarkRead(m)
  \/ SendMessageNotification("c1", "u1", NoUser)
  \/ Tick
  \/ \E o \in Outcomes, fault \in Faults :
        FlushTimer("u2", [e \in Endpoints |-> o], fault)
  \/ \E o \in Outcomes, fault \in Faults :
        TestPush("u2", [e \in Endpoints |-> o], fault)

\* the coalescer: arrivals, the clock and the flush timers over the stored
\* subscriptions of one endpoint, with users connecting to show who is present
PushInit ==
  /\ connected = {}
  /\ rooms = [s \in Conns |-> {}]
  /\ chats = Chats
  /\ participants = [c \in Chats |-> InitParticipants(c)]
  /\ messages = <<>>
  /\ nextId = 1
  /\ timers = <<>>
  /\ reactions = <<>>
  /\ emitted = <<>>
  /\ response = 0
  /\ subscriptions \in SUBSET ({"u2", "u3"} \X {"e1"})
  /\ isConfigured \in BOOLEAN
  /\ notificationQueue = [u \in Users |-> EmptyQueue]
  /\ pushSeq = 0
  /\ pushed = <<>>
  /\ sinceArrival = [u \in Users |-> BATCH_DELAY]
  /\ burst = [u \in Users |-> [n |-> 0, tight |-> TRUE, dispatches |-> 0]]
  /\ subscribing = <<>>
  /\ reacting = {}
  /\ reactionView = <<>>
  /\ lastToggle = NoToggle
  /\ ClientInit
  /\ AsyncInit

PushNext ==
  \/ EndTurn
  \/ Connect("s2")
  \/ Disconnect("s2")
  \/ JoinChats("s2")
  \/ \E c \in Chats, sender \in Users \cup {NoUser} :
        \E x \in {NoUser, sender} : SendMessageNotification(c, sender, x)
  \/ \E u \in Users, o \in Outcomes :
        FlushTimer(u, [e \in Endpoints |-> IF e = "e1" THEN o ELSE "ok"], NoFault)
  \/ Tick

PushSpec == PushInit /\ [][PushNext]_vars

GatewaySpec == PushInit /\ [][GatewayNext]_vars

FaultSpec == PushInit /\ [][FaultNext]_vars

\* the coalescer alone: arrivals, the clock and the flush timers
CoalescerNext ==
  \/ EndTurn
  \/ \E c \in Chats, sender \in {"u1", "u3"} : SendMessageNotification(c, sender, NoUser)
  \/ \E u \in Users, o \in Outcomes : FlushTimer(u, [e \in Endpoints |-> o], NoFault)
  \/ Tick

\* the flush of u with some answer of the push services
Flush(u) == \E o \in Outcomes : FlushTimer(u, [e \in Endpoints |-> o], NoFault)

\* the event loop: time passes, a timer that is due runs its callback, and a
\* handler that answered returns
CoalescerFairness ==
  /\ WF_vars(Tick)
  /\ WF_vars(EndTurn)
  /\ \A u \in Users : WF_vars(Flush(u))

CoalescerSpec == PushInit /\ [][CoalescerNext]_vars /\ CoalescerFairness

\* the coalescer with the flush split at its await: arrivals and timers run
\* while sendToUser calls are in progress
InterleaveNext ==
  \/ EndTurn
  \/ \E c \in Chats : SendMessageNotification(c, "u1", NoUser)
  \/ \E u \in Users : FlushStart(u)
  \/ \E i \in 1..MaxNotifs, o \in Outcomes : FlushSend(i, [e \in Endpoints |-> o])
  \/ Tick

InterleaveSpec == PushInit /\ [][InterleaveNext]_vars

\* send-message over a database that may reject a query
SendFaultNext ==
  \/ EndTurn
  \/ \E s \in FanoutConns : Connect(s)
  \/ \E s \in FanoutConns : JoinChats(s)
  \/ \E s \in FanoutConns, c \in Chats : SendMessage(s, c, "text")
  \/ \E s \in FanoutConns, c \in Chats, q \in SendQueries : SendMessageFailing(s, c, "text", q)
  \/ \E m \in MsgIds : TimerFire(m)
  \/ \E m \in MsgIds : TimerMarkRead(m)

SendFaultSpec == Init /\ [][SendFaultNext]_vars

\* the service worker of one client: notifications to show, the queue of those
\* it could not show, and the client's APP_ACTIVE and CLEAR_NOTIFICATION_QUEUE
WorkerNext ==
  \/ EndTurn
  \/ \E via \in {"push", "message"}, canShow \in BOOLEAN : ShowOrQueue(via, canShow)
  \/ \E canShow, canRead, canWrite \in BOOLEAN : AppActive(canShow, canRead, canWrite)
  \/ ClearNotificationQueue

WorkerSpec == Init /\ [][WorkerNext]_vars

\* the service worker with its calls interleaved at their awaits
WorkerRaceNext ==
  \/ EndTurn
  \/ AddToQueueRead
  \/ \E i \in OpIndexes : AddToQueueWrite(i)
  \/ \E H \in SUBSET {ActiveHandlers[k] : k \in DOMAIN ActiveHandlers} : Foreground(H)
  \/ \E i \in OpIndexes : ReplayRead(i)
  \/ \E i \in OpIndexes, canShow \in BOOLEAN : ReplayShow(i, canShow)
  \/ \E i \in OpIndexes : ReplayClear(i)

WorkerRaceSpec == Init /\ [][WorkerRaceNext]_vars

\* the window of the client of ClientConn while messages are sent in its chats
ClientNext ==
  \/ EndTurn
  \/ \E s \in FanoutConns : Connect(s)
  \/ \E s \in FanoutConns : JoinChats(s)
  \/ \E s \in FanoutConns, c \in Chats : SendMessage(s, c, "text")
  \/ \E c \in Chats : SetCurrentChat(c)
  \/ VisibilityChange
  \/ \E i \in DOMAIN emitted : OnNewMessage(i)

ClientSpec == Init /\ [][ClientNext]_vars

\* the chat window of ClientConn: it opens chat c1, fetches its messages, and
\* receives the messages sent meanwhile
ChatNext ==
  \/ EndTurn
  \/ \E s \in FanoutConns : Connect(s)
  \/ JoinChats(ClientConn)
  \/ SetCurrentChat("c1")
  \/ \E s \in FanoutConns, c \in Chats : SendInsert(s, c)
  \/ \E m \in MsgIds : SendBroadcast(m)
  \/ FetchMessages
  \/ \E i \in 1..MaxFetching : FetchArrive(i)
  \/ \E i \in DOMAIN emitted : HandleNewMessage(i)

ChatSpec == Init /\ [][ChatNext]_vars

\* connection attempts with any token, and what connections then do
HandshakeNext ==
  \/ EndTurn
  \/ \E s \in FanoutConns, token \in Tokens : Handshake(s, token)
  \/ \E s \in FanoutConns : Disconnect(s)
  \/ \E s \in FanoutConns : JoinChats(s)
  \/ \E s \in FanoutConns, c \in Chats : JoinChat(s, c)
  \/ \E s \in FanoutConns, c \in Chats : SendMessage(s, c, "text")
  \/ \E m \in MsgIds : TimerFire(m)
  \/ \E m \in MsgIds : TimerMarkRead(m)

HandshakeSpec == Init /\ [][HandshakeNext]_vars

\* the reactions of one message of chat c1, which u1 and u2 read on their
\* connections s1 and s2
ReactionInit ==
  /\ connected = {"s1", "s2"}
  /\ rooms = [s \in Conns |-> IF s \in {"s1", "s2"} THEN {"c1"} ELSE {}]
  /\ chats = Chats
  /\ participants = [c \in Chats |-> InitParticipants(c)]
  /\ messages = (1 :> [NewRow("c1", "u1", "text") EXCEPT !.status = "read"])
  /\ nextId = 2
  /\ timers = <<>>
  /\ reactions = <<>>
  /\ emitted = <<>>
  /\ response = 0
  /\ subscriptions = {}
  /\ isConfigured = TRUE
  /\ notificationQueue = [u \in Users |-> EmptyQueue]
  /\ pushSeq = 0
  /\ pushed = <<>>
  /\ sinceArrival = [u \in Users |-> BATCH_DELAY]
  /\ burst = [u \in Users |-> [n |-> 0, tight |-> TRUE, dispatches |-> 0]]
  /\ subscribing = <<>>
  /\ reacting = {}
  /\ reactionView = <<>>
  /\ lastToggle = NoToggle
  /\ ClientInit
  /\ AsyncInit

ReactionNext ==
  \/ EndTurn
  \/ \E s \in {"s1", "s2"}, i \in DOMAIN EmojiSeq : AddReactionCheck(s, 1, EmojiSeq[i])
  \/ \E q \in reacting : AddReactionInsert(q)
  \/ \E u \in Users, i \in DOMAIN EmojiSeq : PostReactionCheck(u, 1, EmojiSeq[i])
  \/ \E q \in reacting : PostReactionInsert(q)
  \/ \E u \in Users, i \in DOMAIN EmojiSeq : DeleteReaction(u, 1, EmojiSeq[i])
  \/ \E u \in Users : GetReactions(u, 1)
  \/ \E s \in {"s1", "s2"}, i \in DOMAIN EmojiSeq : ToggleReaction(s, 1, EmojiSeq[i])

ReactionSpec == ReactionInit /\ [][ReactionNext]_vars

\* add-reaction and remove-reaction of two connections on one message, their
\* queries interleaved
ReactionRaceNext ==
  \/ EndTurn
  \/ \E s \in {"s1", "s2"}, op \in {"add", "remove"} : ReactionCheck(s, 1, "x", op)
  \/ \E q \in reacting : ReactionWrite(q)
  \/ \E q \in reacting : ReactionSelect(q)
  \/ \E q \in reacting : ReactionEmit(q)

ReactionRaceSpec == ReactionInit /\ [][ReactionRaceNext]_vars

\* ------------------------------------------------------------- properties

\* the six room events of the fan-out
RoomEvents ==
  {"new-message", "message-status-updated", "reaction-updated", "message-edited",
   "user-typing", "user-stopped-typing"}

\* some connection of user u is joined to the room of chat c
PresentIn(u, c) == \E s \in connected : ConnUser(s) = u /\ c \in rooms[s]

\* C1: no write moves a message's stored status to a lower one in the order
\* sent < delivered < read. Under Spec the timer's UPDATE to delivered after a
\* join-chat marked the message read, and PATCH /:messageId/status, do.
C1_StatusNeverMovesBackward ==
  [][\A m \in DOMAIN messages \cap DOMAIN messages' :
       Rank(messages'[m].status) >= Rank(messages[m].status)]_vars

\* C2: every created message reaches delivered with no further client action,
\* that is, a message still stored as sent has its auto-advance timer pending.
\* Under Spec a message created by POST /:chatId or upload-image has none.
C2_SentHasTimerPending ==
  \A m \in DOMAIN messages :
    messages[m].status = "sent" => m \in DOMAIN timers /\ timers[m].pc = "armed"

C4_RoomIsolation ==
  \A i \in DOMAIN emitted :
    emitted[i].event \in RoomEvents =>
      \A s \in emitted[i].to : s \in connected /\ emitted[i].chat \in rooms[s]

\* C4 witness: a room event is delivered while a connection joined only to
\* another chat's room is connected
C4_Witness ==
  \E i \in DOMAIN emitted, s \in connected :
    /\ emitted[i].event \in RoomEvents
    /\ emitted[i].to # {}
    /\ rooms[s] # {}
    /\ emitted[i].chat \notin rooms[s]

\* C5: send-message, an edit, or add/remove of a reaction by a user who is not
\* a participant of the chat is rejected, writes nothing and broadcasts nothing.
\* Under AccessSpec the edit by the sender who has left the chat is not rejected.
C5_NonParticipantRejected ==
  [][/\ \A s \in Conns, c \in Chats :
          (SendMessage(s, c, "text") /\ ~IsParticipant(c, ConnUser(s))) =>
            /\ emitted' = <<ErrorTo(s, "Access denied")>>
            /\ storeVars' = storeVars
     /\ \A s \in Conns, m \in DOMAIN messages, e \in Emojis :
          ((AddReaction(s, m, e) \/ RemoveReaction(s, m, e))
             /\ ~IsParticipant(messages[m].chat_id, ConnUser(s))) =>
            /\ emitted' = <<ErrorTo(s, "Message not found or access denied")>>
            /\ storeVars' = storeVars
     /\ \A u \in Users, m \in DOMAIN messages :
          (EditMessage(u, m, "new") /\ ~IsParticipant(messages[m].chat_id, u)) =>
            /\ response' \in {403, 404}
            /\ emitted' = <<>>
            /\ storeVars' = storeVars]_vars

\* C6: for a message sent while another member's connection is in the room, no
\* read event is delivered before its delivered event, that is, while its timer
\* has not fired. Under Spec join-chat delivers one.
C6_NoReadBeforeDelivered ==
  \A i \in DOMAIN emitted :
    (/\ emitted[i].event = "message-status-updated"
     /\ emitted[i].status = "read"
     /\ emitted[i].to # {}) =>
      ~(/\ emitted[i].msg \in DOMAIN timers
        /\ timers[emitted[i].msg].pc = "armed"
        /\ timers[emitted[i].msg].othersAtSend)

\* C7: send-message in a chat with a member who has no connection and one push
\* subscription leaves a notification for that member in the coalescer. Under
\* Spec send-message never reaches the push service.
C7_SendQueuesPushForOfflineMember ==
  [][\A s \in Conns, c \in Chats :
       (SendMessage(s, c, "text") /\ IsParticipant(c, ConnUser(s))) =>
         \A u \in participants[c] \ {ConnUser(s)} :
           ((\A x \in connected : ConnUser(x) # u) /\ Cardinality(UserSubscriptions(u)) = 1) =>
             notificationQueue'[u].messages # <<>>]_vars

\* C8: when the timer of a message fires the message is stored as delivered,
\* and it goes on to read, stored and broadcast, exactly when a connection of
\* another user than the sender is joined to the chat's room at that moment.
C8_TimerReadIffOtherPresent ==
  [][\A m \in MsgIds :
       /\ TimerFire(m) =>
            /\ messages'[m].status = "delivered"
            /\ (m \in DOMAIN timers' /\ timers'[m].pc = "reading")
                 <=> (\E s \in connected : /\ timers[m].chatId \in rooms[s]
                                           /\ ConnUser(s) # timers[m].userId)
       /\ TimerMarkRead(m) =>
            /\ messages'[m].status = "read"
            /\ emitted' = <<Emit("message-status-updated", timers[m].chatId, m, "read",
                                 {s \in connected : timers[m].chatId \in rooms[s]})>>]_vars

\* C8 witness: the timer of a message has fired and goes on to read, and the
\* sender has a connection in the room
C8_Witness ==
  \E m \in DOMAIN timers :
    /\ timers[m].pc = "reading"
    /\ messages[m].status = "delivered"
    /\ PresentIn(timers[m].userId, timers[m].chatId)

\* C9: a notification is queued only for members other than the sender who
\* have no connection joined to the chat's room at that time. Under PushSpec
\* sendMessageNotification queues one for a member present in the room.
C9_PushOnlyForAbsentMembers ==
  [][\A c \in Chats, sender \in Users \cup {NoUser}, x \in Users \cup {NoUser} :
       SendMessageNotification(c, sender, x) =>
         \A u \in Users :
           Len(notificationQueue'[u].messages) > Len(notificationQueue[u].messages) =>
             /\ u \in participants[c] \ {sender}
             /\ ~PresentIn(u, c)]_vars

\* C10: a send-message, add-reaction or remove-reaction of a connection ends in
\* an error event or the broadcast delivered to that connection. Under
\* AccessSpec a member's connection not joined to the room gets neither.
C10_SenderGetsErrorOrBroadcast ==
  [][\A s \in Conns :
       (\/ \E c \in Chats : SendMessage(s, c, "text")
        \/ \E m \in MsgIds, e \in Emojis : AddReaction(s, m, e) \/ RemoveReaction(s, m, e)) =>
         \E i \in DOMAIN emitted' : s \in emitted'[i].to]_vars

\* the events that report a change of a message to its chat
MessageEvents ==
  {"new-message", "message-status-updated", "reaction-updated", "message-edited"}

\* C11: a new-message, message-status-updated, reaction-updated or
\* message-edited event is delivered to every connection joined to the chat's
\* room when it is emitted, the causing connection and the other connections of
\* its user included.
C11_WholeRoomReceives ==
  \A i \in DOMAIN emitted :
    emitted[i].event \in MessageEvents =>
      {s \in connected : emitted[i].chat \in rooms[s]} \subseteq emitted[i].to

\* C11 witness: a reaction of u1 made on one device is delivered to both devices
\* of u1 and to u2
C11_Witness ==
  \E i \in DOMAIN emitted :
    /\ emitted[i].event = "reaction-updated"
    /\ emitted[i].to = {"s1", "s2", "s3"}

\* C12: of concurrent subscribe requests for one user and endpoint none fails,
\* and the pair is stored once they are done. Under SubscribeSpec the INSERT of
\* the request that wrote second breaks UNIQUE(user_id, endpoint) and the
\* request is answered 500.
C12_ConcurrentSubscribeSucceeds ==
  [][\A r \in ReqIds :
       StoreSubscriptionWrite(r) =>
         /\ response' = 200
         /\ <<subscribing[r].userId, subscribing[r].endpoint>> \in subscriptions']_vars

\* C13: no room event is delivered for a message that is deleted. Under
\* AccessSpec the timer of a message deleted with its chat still broadcasts
\* message-status-updated when it fires.
C13_NoEventForDeletedMessage ==
  \A i \in DOMAIN emitted :
    (/\ emitted[i].event \in RoomEvents
     /\ emitted[i].msg \in MsgIds
     /\ emitted[i].to # {}) =>
      emitted[i].msg \in DOMAIN messages

\* C14: a connection enters the room of a chat only when its user is a
\* participant of the chat at that time, and a join-chat of a user who is not
\* changes no room and no message and broadcasts nothing.
C14_OnlyParticipantsAdmitted ==
  [][\A s \in Conns, c \in Chats :
       /\ (c \in rooms'[s] /\ c \notin rooms[s]) => ConnUser(s) \in participants[c]
       /\ (JoinChat(s, c) /\ ConnUser(s) \notin participants[c]) =>
            /\ rooms' = rooms
            /\ messages' = messages
            /\ emitted' = <<>>]_vars

\* C14 witness: join-chat has admitted a connection to a chat of its user and
\* marked a message read, and the connection is in no room of a chat its user is
\* not in
C14_Witness ==
  \E s \in connected, i \in DOMAIN emitted :
    /\ emitted[i].event = "message-status-updated"
    /\ emitted[i].status = "read"
    /\ s \in emitted[i].to
    /\ emitted[i].msg \in DOMAIN timers
    /\ rooms[s] = {emitted[i].chat}

\* C15: an edit by the message's sender of a text message replaces the content,
\* sets edited and is broadcast as message-edited to the chat's room; any other
\* edit leaves the messages as they are and broadcasts nothing; and nothing but
\* an edit changes a content or an edited flag.
C15_EditOnlyBySenderOfText ==
  [][/\ \A u \in Users, m \in MsgIds :
          EditMessage(u, m, "new") =>
            IF /\ m \in DOMAIN messages
               /\ messages[m].sender_id = u
               /\ messages[m].message_type = "text"
            THEN /\ messages' = [messages EXCEPT ![m].content = "new", ![m].edited = TRUE]
                 /\ emitted' = <<Emit("message-edited", messages[m].chat_id, m, "none",
                                      {s \in connected : messages[m].chat_id \in rooms[s]})>>
            ELSE /\ messages' = messages
                 /\ emitted' = <<>>
     /\ \A m \in DOMAIN messages \cap DOMAIN messages' :
          (\/ messages'[m].content # messages[m].content
           \/ messages'[m].edited # messages[m].edited) =>
            EditMessage(messages[m].sender_id, m, "new")]_vars

\* C15 witness: a text message edited by its sender, the edit delivered to the room
C15_Witness ==
  \E m \in DOMAIN messages, i \in DOMAIN emitted :
    /\ messages[m].edited
    /\ messages[m].content = "new"
    /\ response = 200
    /\ emitted[i].event = "message-edited"
    /\ emitted[i].msg = m
    /\ emitted[i].to # {}

\* C16: sendToUser deletes a subscription exactly when its dispatch to it was
\* answered 410 or 404: each such subscription, no other, and none after another
\* failure.
C16_DeletedExactlyWhenGone ==
  [][\A u \in GatewayUsers, outcome \in [Endpoints -> Outcomes] :
       TestPush(u, outcome, NoFault) =>
         /\ subscriptions' \subseteq subscriptions
         /\ \A row \in subscriptions :
              row \notin subscriptions' <=>
                (isConfigured /\ row[1] = u /\ outcome[row[2]] = "gone")]_vars

\* C16 witness: of two dispatches for a user, one answered gone and one failing
\* otherwise, the first subscription is deleted and the second kept
C16_Witness ==
  \E i \in DOMAIN pushed :
    /\ Len(pushed[i].attempts) = 2
    /\ pushed[i].attempts[1].outcome = "gone"
    /\ pushed[i].attempts[2].outcome = "error"
    /\ <<pushed[i].userId, pushed[i].attempts[1].subscription>> \notin subscriptions
    /\ <<pushed[i].userId, pushed[i].attempts[2].subscription>> \in subscriptions

\* the returned summary counts the subscriptions and the successful attempts
SummaryCounts(call, subs, outcome) ==
  /\ Len(call.attempts) = Cardinality(subs)
  /\ \A e \in subs :
       Cardinality({k \in DOMAIN call.attempts : call.attempts[k].subscription = e}) = 1
  /\ \A k \in DOMAIN call.attempts :
       call.attempts[k].outcome = outcome[call.attempts[k].subscription]
  /\ {"success", "sent", "total"} \subseteq DOMAIN call.result
  /\ call.result.total = Cardinality(subs)
  /\ call.result.sent = Cardinality({e \in subs : outcome[e] = "ok"})
  /\ call.result.success = (call.result.sent > 0)

C19_MergedNotificationOfOneChat ==
  [][\A i \in DOMAIN pushed' :
       pushed'[i].payload.batchCount > 1 =>
         \A k \in DOMAIN notificationQueue[pushed'[i].userId].messages :
           notificationQueue[pushed'[i].userId].messages[k].chat_id
             = pushed'[i].payload.chatId]_vars

\* message k is in the accumulator of u
Queued(u, k) ==
  \E i \in DOMAIN notificationQueue[u].messages : notificationQueue[u].messages[i].id = k

\* C20: every notification appended to the accumulator of a recipient leaves it
\* in the end, and it leaves it only in the flush that runs BATCH_DELAY after
\* the last arrival and hands the whole accumulator to one sendToUser call.
C20_PendingIsDispatched ==
  /\ \A u \in Users, k \in 1..MaxNotifs : Queued(u, k) ~> ~Queued(u, k)
  /\ [][\A u \in Users, k \in 1..MaxNotifs :
          (Queued(u, k) /\ ~Queued(u, k)') =>
            /\ sinceArrival[u] = BATCH_DELAY
            /\ \E i \in DOMAIN pushed' :
                 /\ pushed'[i].userId = u
                 /\ pushed'[i].payload.batchCount = Len(notificationQueue[u].messages)
                 /\ pushed'[i].payload.messageId = notificationQueue[u].messages[1].id]_vars

\* C20 witness: the flush of a recipient has handed two notifications to
\* sendToUser, BATCH_DELAY after the second arrived, and nothing is left queued
C20_Witness ==
  \E i \in DOMAIN pushed :
    /\ pushed[i].payload.batchCount = MaxNotifs
    /\ notificationQueue[pushed[i].userId] = EmptyQueue
    /\ sinceArrival[pushed[i].userId] = BATCH_DELAY
    /\ pushSeq = MaxNotifs

\* C21: after the flush of a recipient the accumulator is empty with no timer
\* in it; an empty accumulator never holds a timer, and a timer is armed only
\* by a step that appends a notification.
C21_FlushLeavesNothing ==
  /\ [](\A u \in Users :
          notificationQueue[u].messages = <<>> => notificationQueue[u].timeout = NoTimer)
  /\ [][\A u \in Users :
          /\ (\E i \in DOMAIN pushed' : pushed'[i].userId = u) =>
               notificationQueue'[u] = EmptyQueue
          /\ (notificationQueue[u].timeout = NoTimer
                /\ notificationQueue'[u].timeout # NoTimer) =>
               Len(notificationQueue'[u].messages) = Len(notificationQueue[u].messages) + 1]_vars

\* C21 witness: the accumulator of one recipient has been flushed and is empty
\* while the timer of another recipient is still running
C21_Witness ==
  \E i \in DOMAIN pushed, v \in Users :
    /\ v # pushed[i].userId
    /\ notificationQueue[pushed[i].userId] = EmptyQueue
    /\ notificationQueue[v].timeout \notin {NoTimer, BATCH_DELAY}
    /\ notificationQueue[v].messages # <<>>

\* C22: a second toggle of the same reaction by the same client, right after
\* the first, puts the table of reactions, and so the grouped rows of the
\* message, back to what they were before the first. Under ReactionSpec the
\* second toggle of a user who reacted with another emoji as well removes nothing
\* and adds nothing.
C22_ToggleTwiceRestores ==
  [][\A s \in Conns, i \in DOMAIN EmojiSeq :
       (/\ ToggleReaction(s, 1, EmojiSeq[i])
        /\ lastToggle # NoToggle
        /\ lastToggle.conn = s /\ lastToggle.msg = 1 /\ lastToggle.emoji = EmojiSeq[i]) =>
         /\ reactions' = lastToggle.before
         /\ Grouped(reactions', 1) = Grouped(lastToggle.before, 1)]_vars

\* C23: a toggle removes the triple when it exists and inserts it when it does
\* not. Under ReactionSpec the toggle of a user who reacted with another emoji
\* only sends the removal of a triple that is not there.
C23_ToggleDecidesByTriple ==
  [][\A s \in Conns, i \in DOMAIN EmojiSeq :
       ToggleReaction(s, 1, EmojiSeq[i]) =>
         LET row == <<1, ConnUser(s), EmojiSeq[i]>>
         IN reactions' = IF row \in DOMAIN reactions
                         THEN DeleteRows(reactions, row)
                         ELSE Upsert(reactions, row)]_vars

\* C24: an add of a reaction whose triple is stored leaves the one row of that
\* triple and the grouped rows as they were, and succeeds; no triple ever has
\* two rows, also with add requests of the socket and of the REST route in
\* flight together.
C24_AddIsIdempotent ==
  /\ [](\A row \in DOMAIN reactions : reactions[row] = 1)
  /\ [][\A q \in reacting :
          ((AddReactionInsert(q) \/ PostReactionInsert(q))
             /\ <<q.msg, q.user, q.emoji>> \in DOMAIN reactions) =>
            /\ reactions' = reactions
            /\ Grouped(reactions', q.msg) = Grouped(reactions, q.msg)
            /\ IF q.via = "rest"
               THEN response' = 200
               ELSE \E i \in DOMAIN emitted' : emitted'[i].event = "reaction-updated"]_vars

\* C24 witness: the REST add of a triple has answered while the socket add of
\* the same triple is in flight, and the triple has its one row
C24_Witness ==
  \E q \in reacting :
    /\ q.via = "socket"
    /\ DOMAIN reactions = {<<q.msg, q.user, q.emoji>>}
    /\ response = 200
    /\ emitted = <<>>
    /\ reactionView = <<>>

\* C25: the rows sent for the reactions of a message are one per emoji of its
\* reactions, each with the number and the set of the users who reacted with
\* it, the larger count first and among equal counts the lesser emoji first.
C25_GroupedView ==
  reactionView # <<>> =>
    /\ \A i, j \in DOMAIN reactionView :
         i < j =>
           \/ reactionView[i].count > reactionView[j].count
           \/ /\ reactionView[i].count = reactionView[j].count
              /\ EmojiRank(reactionView[i].emoji) < EmojiRank(reactionView[j].emoji)
    /\ \A k \in DOMAIN EmojiSeq :
         LET users == {u \in Users : <<1, u, EmojiSeq[k]>> \in DOMAIN reactions}
             at == {i \in DOMAIN reactionView : reactionView[i].emoji = EmojiSeq[k]}
         IN IF users = {}
            THEN at = {}
            ELSE /\ Cardinality(at) = 1
                 /\ \A i \in at : /\ reactionView[i].count = Cardinality(users)
                                  /\ reactionView[i].users = users

\* C25 witness: the rows put the emoji that two users chose before the lesser
\* emoji that one user chose
C25_Witness ==
  /\ Len(reactionView) = 2
  /\ reactionView[1].emoji = EmojiSeq[2]
  /\ reactionView[1].count = 2
  /\ reactionView[2].count = 1

\* C26: a send-message that ends in an error event to the sender leaves no
\* message of that request in the table and broadcasts no new-message. Under
\* SendFaultSpec the row inserted before the failing chat lookup stays.
C26_ErrorLeavesNoMessage ==
  [][\A s \in Conns, c \in Chats, q \in SendQueries :
       ((SendMessage(s, c, "text") \/ SendMessageFailing(s, c, "text", q))
          /\ \E i \in DOMAIN emitted' : emitted'[i].event = "error") =>
         /\ messages' = messages
         /\ \A i \in DOMAIN emitted' : emitted'[i].event # "new-message"]_vars

\* the notification queued last
Latest(queue) ==
  CHOOSE n \in {queue[i] : i \in DOMAIN queue} :
    \A i \in DOMAIN queue : queue[i].id <= n.id

C28_OnlyAuthenticatedConnect ==
  /\ [][\A s \in Conns, token \in Tokens \ {"jwt"} :
          Handshake(s, token) =>
            /\ connected' = connected
            /\ rooms' = rooms
            /\ \A i \in DOMAIN emitted' : emitted'[i].event = "connect_error"]_vars
  /\ [](\A s \in Conns \ connected :
          /\ rooms[s] = {}
          /\ \A i \in DOMAIN emitted :
               emitted[i].event \in RoomEvents => s \notin emitted[i].to)
  /\ [][\A s \in Conns \ connected, c \in Chats :
          ~(JoinChats(s) \/ JoinChat(s, c) \/ SendMessage(s, c, "text"))]_vars

\* C28 witness: the attempt of one socket with the token of a deleted user was
\* turned away while the other socket is in its rooms
C28_Witness ==
  \E i \in DOMAIN emitted, s \in connected :
    /\ emitted[i].event = "connect_error"
    /\ emitted[i].status = "User not found"
    /\ emitted[i].to \cap connected = {}
    /\ rooms[s] # {}

\* C30: every connection joined to the room of a chat is of a user who is a
\* participant of the chat now. Under AccessSpec a connection stays in the room
\* after its user left the chat or the chat was deleted.
C30_RoomMembersAreParticipants ==
  \A s \in connected : \A c \in rooms[s] : IsParticipant(c, ConnUser(s))

\* C31: a user-typing or user-stopped-typing event of a chat reaches other
\* connections only when the user of the emitting connection is a participant
\* of the chat. The typing handlers make no participant check, so under
\* FanoutSpec a non-participant's typing event is delivered to the room.
C31_TypingOnlyByParticipants ==
  [][\A s \in Conns, c \in Chats :
        ((TypingStart(s, c) \/ TypingStop(s, c)) /\ emitted'[1].to # {})
          => IsParticipant(c, ConnUser(s))]_vars

\* how many times the flushes of u counted notification k
Counted(u, k) ==
  Cardinality({p \in {q \in DOMAIN flushes : flushes[q].userId = u} \X (1..MaxNotifs) :
                 p[2] \in DOMAIN flushes[p[1]].ids /\ flushes[p[1]].ids[p[2]] = k})

\* C32: with arrivals, timers and sendToUser calls in progress interleaved, a
\* notification appended for a recipient is counted by no flush while it is
\* queued, by exactly one once it left the queue, and never by two; the
\* batchCount of a flush is the number of notifications it took.
C32_CountedInExactlyOneFlush ==
  /\ [](\A u \in Users, k \in 1..MaxNotifs :
          /\ Counted(u, k) <= 1
          /\ Queued(u, k) => Counted(u, k) = 0)
  /\ [](\A i \in DOMAIN flushes : flushes[i].payload.batchCount = Len(flushes[i].ids))
  /\ [][\A u \in Users, k \in 1..MaxNotifs :
          (Queued(u, k) /\ ~Queued(u, k)') => Counted(u, k)' = 1]_vars

\* C32 witness: the sendToUser call of a flush is in progress while a later
\* notification of the same recipient is queued behind its own timer
C32_Witness ==
  \E i \in DOMAIN flushes :
    /\ ~flushes[i].sent
    /\ notificationQueue[flushes[i].userId].messages # <<>>
    /\ notificationQueue[flushes[i].userId].timeout # NoTimer
    /\ Counted(flushes[i].userId, flushes[i].ids[1]) = 1

\* C33: the event loop holds at most one flush timer of a recipient, and while
\* the pending list of a recipient is not empty it holds one, which is the
\* timer in userQueue.timeout.
C33_OneTimerWhilePending ==
  \A u \in Users :
    /\ liveTimers[u] <= 1
    /\ liveTimers[u] = (IF notificationQueue[u].timeout = NoTimer THEN 0 ELSE 1)
    /\ notificationQueue[u].messages # <<>> => liveTimers[u] = 1

\* C33 witness: a second notification arrived for a recipient whose timer was
\* running, and one timer is live with both pending
C33_Witness ==
  \E u \in Users :
    /\ Len(notificationQueue[u].messages) = 2
    /\ notificationQueue[u].timeout = 0
    /\ liveTimers[u] = 1

\* C34: when the last of several concurrent add-reaction / remove-reaction
\* operations on a message has broadcast, the reaction-updated event it sent
\* carries the aggregation of the stored reactions. Under ReactionRaceSpec the
\* handler that read the rows first can be the one that broadcasts last.
C34_LastEventCarriesStored ==
  [][\A q \in reacting :
        (ReactionEmit(q) /\ reacting' = {}) => reactionView' = Grouped(reactions', q.msg)]_vars

\* C35: join-chat by a participant leaves every message of the chat sent by
\* another user read, and broadcasts message-status-updated(read) for exactly
\* the messages it changed. The handler re-selects every read message of the
\* others, so under Spec it broadcasts for messages that were read before too.
C35_JoinBroadcastsOnlyChanged ==
  [][\A s \in Conns, c \in Chats :
        (JoinChat(s, c) /\ IsParticipant(c, ConnUser(s))) =>
          /\ \A m \in OthersMessages(c, ConnUser(s)) : messages'[m].status = "read"
          /\ {emitted'[i].msg : i \in DOMAIN emitted'}
               = {m \in OthersMessages(c, ConnUser(s)) : messages[m].status # "read"}]_vars

\* C36: the message list of the open chat never holds a message id twice,
\* however the fetch of the chat and the new-message events interleave. Under
\* ChatSpec a fetch answered between the INSERT and the broadcast of a message
\* puts it in the list, and the event then appends it again.
C36_NoDuplicateMessage ==
  \A i, j \in DOMAIN clientMessages : i # j => clientMessages[i] # clientMessages[j]

\* C37: the APP_ACTIVE signals of one return to the foreground never show the
\* same queued notification twice. Under WorkerRaceSpec two calls of
\* processQueuedNotifications read the queue before either cleared it, and
\* both show its first entry.
C37_ReplayedAtMostOnce ==
  \A i, j \in DOMAIN swOps :
    (i # j /\ swOps[i].kind = "replay" /\ swOps[j].kind = "replay" /\ swOps[i].shownId # 0)
      => swOps[i].shownId # swOps[j].shownId

\* C38: a notification that is in the stored queue stays in it when another
\* addToNotificationQueue call completes, unless the queue was full. Under
\* WorkerRaceSpec a call that read the queue before another one wrote it
\* stores its own copy, without the other's entry.
C38_AddsDoNotOverwrite ==
  [][\A i \in OpIndexes :
        (AddToQueueWrite(i) /\ Len(swQueue) < MAX_QUEUE_SIZE) =>
          \A k \in DOMAIN swQueue : \E l \in DOMAIN swQueue' : swQueue'[l] = swQueue[k]]_vars

\* the ids of a queue are in descending order: the newest entry first
NewestFirst(queue) ==
  \A i, j \in DOMAIN queue : i < j => queue[i].id > queue[j].id

\* C39: the stored queue never holds more than MAX_QUEUE_SIZE entries and is
\* ordered newest first; an entry added to a full queue goes to the front and
\* the oldest entry, the last one, is the one dropped.
C39_QueueBoundedNewestFirst ==
  /\ [](Len(swQueue) <= MAX_QUEUE_SIZE /\ NewestFirst(swQueue))
  /\ [][\A via \in {"push", "message"} :
          (ShowOrQueue(via, FALSE) /\ Len(swQueue) = MAX_QUEUE_SIZE) =>
            /\ Len(swQueue') = MAX_QUEUE_SIZE
            /\ swQueue'[1].id = swSeq'
            /\ \A k \in 2..MAX_QUEUE_SIZE : swQueue'[k] = swQueue[k - 1]]_vars

\* C39 witness: an eleventh notification was queued: the queue is full and its
\* oldest entry is no longer the first one that was queued
C39_Witness ==
  /\ Len(swQueue) = MAX_QUEUE_SIZE
  /\ swQueue[1].id = MAX_QUEUE_SIZE + 1
  /\ swQueue[MAX_QUEUE_SIZE].id = 2

====
